---- MODULE Spec2Model ----
(***************************************************************************)
(* FileGO: the chunk store and the file operations                         *)
(* (internal/fs/chunks.go), the node registry and placement selector       *)
(* (internal/node manager) and the peer overlay (internal/node/p2p.go),    *)
(* modelled as state machines.                                             *)
(*                                                                         *)
(* Each component has its own specification (SpecChunk, SpecStore,         *)
(* SpecDfs, SpecReg, SpecLive, SpecList, SpecSelect, SpecNet, SpecSend,    *)
(* SpecReply, SpecPing, SpecAnnounce; SpecStop and SpecStopLive for Start  *)
(* and Stop; SpecMesh and SpecMeshLive for several nodes); the variables   *)
(* of the other components keep their initial values in it.                *)
(***************************************************************************)
EXTENDS Integers, Sequences, FiniteSets, TLC

VARIABLES
    \* ---- chunk store (FileChunker) and the filesystem it writes to
    chunkSize,      \* FileChunker.chunkSize
    chunksMeta,     \* FileChunker.chunksMeta: chunk id -> ChunkInfo
    dirs,           \* per-file chunk directories that exist under chunksDir
    disk,           \* chunk files: <<fileID, chunkID>> -> bytes
    outFile,        \* the file at the output path of ReassembleFile (NoFile or bytes)
    lastSplit,      \* what the last ChunkFile call was given and returned
    lastReasm,      \* what the last ReassembleFile call was given (file id, the
                    \* chunks' indices) and returned
    \* ---- node registry (NodeManager)
    nodes,          \* NodeManager.nodes: id -> Node
    nodeAddrs,      \* NodeManager.nodeAddrs: address -> id
    now,            \* the wall clock read by time.Now()
    held,           \* history: the addresses each node of the registry has held since it was created
    lastOp,         \* the last registry call: [op, err, removed, freed]; when the call
                    \* removed a node, removed is <<its id>> and freed the addresses it had held
    listing,        \* the last ListNodes call: the list it returned, and (history)
                    \* the nodes of the registry as they were when it returned
    \* ---- placement selector
    selCall,        \* the last GetOptimalStorageNodes call and its outcome
    \* ---- overlay (P2PNetwork)
    peerObjs,       \* every Peer struct created so far (a sequence; the index is the pointer)
    peers,          \* P2PNetwork.peers: address -> Peer pointer
    conn,           \* the ConnectToPeer calls in flight: task -> [pc, addr, peer, err]
    netRet,         \* the last DisconnectPeer call and what it returned
    \* ---- overlay: the frames on the peers' sockets
    wire,           \* per Peer: the writes that went out on its socket, in order
    inbox,          \* per Peer: the frames the remote has sent that are not read yet
    rd,             \* per Peer: its reader (handleConnection): [pc, got, dispatched, reply]
    remoteUp,       \* per Peer: the remote end still has the connection open
    bcast,          \* the BroadcastMessage calls: caller -> [pc, todo, cur, ...]
    \* ---- overlay: the listener and the accept loop
    isRunning,      \* P2PNetwork.isRunning
    listenerOpen,   \* P2PNetwork.listener has not been closed
    acceptLoop,     \* where acceptConnections is: "check", "accept" or "done"
    accepted,       \* remote addresses of the connections Accept returned whose
                    \* goroutine has not put its peer into the map yet
    stopCall,       \* the Stop call: [pc, atStop], atStop (history) the peers the
                    \* map held when Stop closed the sockets
    \* ---- file operations (DistributedFileSystem)
    dfsFiles,       \* the files under rootDir: path -> size
    fileInfo,       \* DistributedFileSystem.fileInfo: path -> FileInfo
    dfsOp,          \* the calls in progress: caller -> [pc, op, path, dest, r, lock, todo]
    dfsSet,         \* history: path -> the replication factor set for the file
                    \* that is at the path now
    dfsRet,         \* what the last call that returned gave back
    \* ---- several nodes, each with a P2PNetwork of its own
    mPeers,         \* per node: P2PNetwork.peers, address -> [IsActive]
    mReg,           \* per node: its NodeManager, [nodes, nodeAddrs]
    mDials,         \* per node: the addresses a goroutine is about to call ConnectToPeer with
    mNet            \* the messages on their way: [type, from, to, key, payload], key
                    \* being the Address of the sender's Peer at the receiver

chunkVars == <<chunkSize, chunksMeta, dirs, disk, outFile, lastSplit, lastReasm>>
regVars   == <<nodes, nodeAddrs, now, held, lastOp>>
listVars  == <<listing>>
selVars   == <<selCall>>
sendVars  == <<wire, inbox, rd, remoteUp, bcast>>
netVars   == <<peerObjs, peers, conn, netRet, sendVars>>
stopVars  == <<isRunning, listenerOpen, acceptLoop, accepted, stopCall>>
dfsVars   == <<dfsFiles, fileInfo, dfsOp, dfsSet, dfsRet>>
meshVars  == <<mPeers, mReg, mDials, mNet>>
vars      == <<chunkVars, dfsVars, regVars, listVars, selVars, netVars, stopVars, meshVars>>

Min(a, b) == IF a < b THEN a ELSE b

(***************************************************************************)
(* Bounds of the model.                                                    *)
(***************************************************************************)
MaxFileLen   == 3   \* files hold at most this many bytes
MaxReqChunk  == 2   \* chunk sizes 0..MaxReqChunk are requested (and one above the cap)
MaxSplits    == 2   \* ChunkFile calls per run
MaxStorage   == 1   \* the largest storage amount passed to the registry
MaxPeerObjs  == 2   \* Peer structs created per run
MaxCapacity  == 2   \* the largest capacity of a node the placement selector is given
MaxTime      == 1   \* the wall clock runs from 0 to this
MaxFrames    == 2   \* frames the remotes send per run
MaxBroadcasts == 1  \* BroadcastMessage calls per caller

(***************************************************************************)
(* Chunk store                                                             *)
(***************************************************************************)
DefaultChunkSize == 65536
MaxChunkSize     == 1048576

Byte  == {0, 1}                     \* the byte values files are made of
Files == UNION {[1..n -> Byte] : n \in 0..MaxFileLen}

\* a path that holds no file, and one that holds a file with the given bytes
NoFile == [exists |-> FALSE, data |-> <<>>]
FileOf(data) == [exists |-> TRUE, data |-> data]

\* sha256 + hex: modelled as a collision-free numbering of byte strings
\* (a byte b is the digit b+1 of a number in base Cardinality(Byte)+1, so
\* that strings of different lengths get different numbers too).
RECURSIVE Sha256Hex(_)
Sha256Hex(data) ==
    IF data = <<>> THEN 0
    ELSE Sha256Hex(SubSeq(data, 1, Len(data) - 1)) * (Cardinality(Byte) + 1)
           + data[Len(data)] + 1

\* a file id that also depends on how many files were split before
FileHashPerCall(F) == Sha256Hex(F) + lastSplit.count * (Cardinality(Byte) + 1) ^ (MaxFileLen + 1)

\* calculateFileHash: the hash of the whole content of the file
calculateFileHash(F) == Sha256Hex(F)

\* NewFileChunker: the chunk size a chunker is configured with
NewFileChunker(requested) ==
    LET c1 == IF requested <= 0 THEN DefaultChunkSize ELSE requested
    IN  IF c1 > MaxChunkSize THEN MaxChunkSize ELSE c1

\* os.WriteFile(path, data): creates or replaces the file at path
WriteFile(dsk, path, data) ==
    [p \in DOMAIN dsk \cup {path} |-> IF p = path THEN data ELSE dsk[p]]

\* the id ChunkFile gives a chunk: the hash of the chunk's bytes
ChunkIDBySize(chunk) == Len(chunk)
ChunkID(chunk) == Sha256Hex(chunk)

\* a read loop that records the length of the buffer as the size of a chunk
RECURSIVE splitLoopBufferSize(_, _, _, _, _)
splitLoopBufferSize(F, off, cs, fileID, st) ==
    LET n == Min(cs, Len(F) - off) IN
    IF n = 0 THEN st
    ELSE LET chunk     == SubSeq(F, off + 1, off + n)
             chunkID   == ChunkID(chunk)
             chunkInfo == [ID |-> chunkID, Index |-> Len(st.chunks), Size |-> cs,
                           FileID |-> fileID, Location |-> ""]
         IN  splitLoopBufferSize(F, off + n, cs, fileID,
                 [chunks |-> Append(st.chunks, chunkInfo),
                  disk   |-> WriteFile(st.disk, <<fileID, chunkID>>, chunk),
                  meta   |-> [k \in DOMAIN st.meta \cup {chunkID} |->
                                 IF k = chunkID THEN chunkInfo ELSE st.meta[k]]])

\* The read loop of ChunkFile from file offset off on: file.Read fills the
\* buffer with the next min(chunkSize, remaining) bytes and reports EOF at the
\* end of the file; every chunk read is written to <fileID>/<chunkID> and
\* recorded in chunksMeta.  st = [chunks, disk, meta].
RECURSIVE splitLoop(_, _, _, _, _)
splitLoop(F, off, cs, fileID, st) ==
    LET n == Min(cs, Len(F) - off) IN
    IF n = 0 THEN st
    ELSE LET chunk     == SubSeq(F, off + 1, off + n)
             chunkID   == ChunkID(chunk)
             chunkInfo == [ID |-> chunkID, Index |-> Len(st.chunks), Size |-> n,
                           FileID |-> fileID, Location |-> ""]
         IN  splitLoop(F, off + n, cs, fileID,
                 [chunks |-> Append(st.chunks, chunkInfo),
                  disk   |-> WriteFile(st.disk, <<fileID, chunkID>>, chunk),
                  meta   |-> [k \in DOMAIN st.meta \cup {chunkID} |->
                                 IF k = chunkID THEN chunkInfo ELSE st.meta[k]]])

\* ChunkFile(filePath) on a file whose content is F
ChunkFile(F) ==
    /\ lastSplit.count < MaxSplits
    /\ LET fileID == calculateFileHash(F)
           st     == splitLoop(F, 0, chunkSize, fileID,
                               [chunks |-> <<>>, disk |-> disk, meta |-> chunksMeta])
       IN  /\ dirs' = dirs \cup {fileID}
           /\ disk' = st.disk
           /\ chunksMeta' = st.meta
           /\ lastSplit' = [count |-> lastSplit.count + 1, err |-> "ok", content |-> F,
                            fileID |-> fileID, chunks |-> st.chunks]
    /\ UNCHANGED <<chunkSize, outFile, lastReasm>>

\* ChunkFile on a path that cannot be opened
ChunkFileMissing ==
    /\ lastSplit' = [lastSplit EXCEPT !.err = "IOFailure", !.content = <<>>,
                                      !.fileID = 0, !.chunks = <<>>]
    /\ UNCHANGED <<chunkSize, chunksMeta, dirs, disk, outFile, lastReasm>>

\* The first loop of ReassembleFile: sortedChunks[chunk.Index] = chunk, failing
\* on the first index outside [0, len(chunks)).  Slots never assigned stay nil.
\* A slot is <<>> (nil) or <<chunk>>.
RECURSIVE placeChunks(_, _, _)
placeChunks(chunks, k, sorted) ==
    IF k > Len(chunks) THEN [err |-> "ok", sorted |-> sorted]
    ELSE LET c == chunks[k] IN
         IF c.Index < 0 \/ c.Index >= Len(chunks)
         THEN [err |-> "InvalidInput", sorted |-> sorted]
         ELSE placeChunks(chunks, k + 1, [sorted EXCEPT ![c.Index + 1] = <<c>>])

\* The second loop of ReassembleFile: read each chunk file and append it to the
\* output.  A nil slot is dereferenced (chunk.ID): a run-time panic.
RECURSIVE writeChunks(_, _, _, _)
writeChunks(fileID, sorted, k, out) ==
    IF k > Len(sorted) THEN [err |-> "ok", out |-> out]
    ELSE IF sorted[k] = <<>> THEN [err |-> "panic", out |-> out]
    ELSE LET path == <<fileID, sorted[k][1].ID>> IN
         IF path \notin DOMAIN disk THEN [err |-> "IOFailure", out |-> out]
         ELSE writeChunks(fileID, sorted, k + 1, out \o disk[path])

\* ReassembleFile(fileID, chunks, outputPath): [err, out], out being the output
\* file when the call ends (os.Create has truncated it before anything else).
ReassembleResult(fileID, chunks) ==
    LET placed == placeChunks(chunks, 1, [i \in 1..Len(chunks) |-> <<>>]) IN
    IF placed.err # "ok" THEN [err |-> placed.err, out |-> <<>>]
    ELSE writeChunks(fileID, placed.sorted, 1, <<>>)

\* The chunk lists ReassembleFile is called with: the entries ChunkFile
\* returned, in any order, possibly repeated or left out.
ChunkLists ==
    LET S == {lastSplit.chunks[i] : i \in 1..Len(lastSplit.chunks)}
    IN  UNION {[1..n -> S] : n \in 0..Len(lastSplit.chunks)}

ReassembleFile(chunks) ==
    /\ lastSplit.err = "ok"
    /\ LET r == ReassembleResult(lastSplit.fileID, chunks)
       IN  /\ outFile' = FileOf(r.out)
           /\ lastReasm' = [called |-> TRUE, fileID |-> lastSplit.fileID,
                            asReturned |-> (chunks = lastSplit.chunks),
                            indices |-> [k \in 1..Len(chunks) |-> chunks[k].Index],
                            err |-> r.err]
    /\ UNCHANGED <<chunkSize, chunksMeta, dirs, disk, lastSplit>>

\* StoreChunk(fileID, chunkID, data): the directory of the file is made if
\* it is not there and data is written to <fileID>/<chunkID>, whatever the id
StoreChunk(fileID, chunkID, data) ==
    /\ dirs' = dirs \cup {fileID}
    /\ disk' = WriteFile(disk, <<fileID, chunkID>>, data)
    /\ UNCHANGED <<chunkSize, chunksMeta, outFile, lastSplit, lastReasm>>

\* the chunks StoreChunk is called with, and the ids it is called with: the
\* ids of these chunks and of the files that consist of one of them
StoreData == {d \in Files : Len(d) = 1}
StoreIDs  == {Sha256Hex(d) : d \in StoreData}

ChunkSizeRequests == (0..MaxReqChunk) \cup {MaxChunkSize + 1}

ChunkInitWith(cs) ==
    /\ chunkSize = cs
    /\ chunksMeta = <<>>
    /\ dirs = {}
    /\ disk = <<>>
    /\ outFile = NoFile
    /\ lastSplit = [count |-> 0, err |-> "none", content |-> <<>>, fileID |-> 0,
                    chunks |-> <<>>]
    /\ lastReasm = [called |-> FALSE, fileID |-> 0, asReturned |-> FALSE,
                    indices |-> <<>>, err |-> "none"]

ChunkInit0 == ChunkInitWith(DefaultChunkSize)

\* maps as functions: m[k] = v, and delete(m, k)
MapPut(m, k, v) == [x \in DOMAIN m \cup {k} |-> IF x = k THEN v ELSE m[x]]
MapDel(m, k)    == [x \in DOMAIN m \ {k} |-> m[x]]

(***************************************************************************)
(* File operations (DistributedFileSystem): files directly under rootDir   *)
(***************************************************************************)
DfsCallers   == {"c1", "c2"}        \* the goroutines that call into the file system
SortedPaths  == <<"f", "g">>        \* the file names, in the order os.ReadDir lists them
DfsPaths     == {"f", "g"}
ReplicaInputs == 0..2               \* the values SetReplicationFactor is called with

\* the FileInfo the operations build (ModTime is left out)
NewFileInfo(path, size, replicas) ==
    [Name |-> path, Path |-> path, Size |-> size, IsDir |-> FALSE,
     Replicas |-> replicas, Available |-> TRUE]

DfsIdle == [pc |-> "idle", op |-> "none", path |-> "", dest |-> "", r |-> 0,
            lock |-> "none", todo |-> <<>>]

\* dfs.mu: RLock is granted while no caller holds the write lock, Lock while
\* no caller holds any
RLockFree == \A t \in DfsCallers : dfsOp[t].lock # "W"
LockFree  == \A t \in DfsCallers : dfsOp[t].lock = "none"

DfsReturned(op, path, err, info) == [op |-> op, path |-> path, err |-> err, info |-> info]

\* ListFiles(dirPath), lines 256-276: under the read lock, the directory is
\* read; a path that is no directory fails
ListFilesCall(t, dirPath) ==
    /\ dfsOp[t].pc = "idle"
    /\ RLockFree
    /\ LET entries == SelectSeq(SortedPaths, LAMBDA p : p \in DOMAIN dfsFiles) IN
       IF dirPath # ""
       THEN /\ dfsRet' = DfsReturned("ListFiles", dirPath,
                            IF dirPath \in DOMAIN dfsFiles THEN "NotDirectory"
                            ELSE "IOFailure", <<>>)
            /\ UNCHANGED dfsOp
       ELSE IF entries = <<>>
       THEN /\ dfsRet' = DfsReturned("ListFiles", dirPath, "ok", <<>>)
            /\ UNCHANGED dfsOp
       ELSE /\ dfsOp' = [dfsOp EXCEPT ![t] = [DfsIdle EXCEPT !.pc = "write",
                                      !.op = "ListFiles", !.lock = "R", !.todo = entries]]
            /\ UNCHANGED dfsRet
    /\ UNCHANGED <<dfsFiles, fileInfo, dfsSet>>

\* ListFiles, lines 278-302: the entry of the next file is built with
\* Replicas 1 and written to the cache; after the last one the call returns
ListFilesWrite(t) ==
    /\ dfsOp[t].pc = "write" /\ dfsOp[t].op = "ListFiles"
    /\ LET p == Head(dfsOp[t].todo) IN
       /\ fileInfo' = MapPut(fileInfo, p, NewFileInfo(p, dfsFiles[p], 1))
       /\ IF Tail(dfsOp[t].todo) = <<>>
          THEN /\ dfsOp' = [dfsOp EXCEPT ![t] = DfsIdle]
               /\ dfsRet' = DfsReturned("ListFiles", "", "ok", <<>>)
          ELSE /\ dfsOp' = [dfsOp EXCEPT ![t].todo = Tail(@)]
               /\ UNCHANGED dfsRet
    /\ UNCHANGED <<dfsFiles, dfsSet>>

\* GetFileInfo(filePath), lines 481-495: under the read lock, the cached entry
\* is returned if there is one; otherwise the file is looked up
GetFileInfoCall(t, filePath) ==
    /\ dfsOp[t].pc = "idle"
    /\ RLockFree
    /\ IF filePath \in DOMAIN fileInfo
       THEN /\ dfsRet' = DfsReturned("GetFileInfo", filePath, "ok", <<fileInfo[filePath]>>)
            /\ UNCHANGED dfsOp
       ELSE IF filePath \notin DOMAIN dfsFiles
       THEN /\ dfsRet' = DfsReturned("GetFileInfo", filePath, "IOFailure", <<>>)
            /\ UNCHANGED dfsOp
       ELSE /\ dfsOp' = [dfsOp EXCEPT ![t] = [DfsIdle EXCEPT !.pc = "write",
                                      !.op = "GetFileInfo", !.lock = "R", !.path = filePath]]
            /\ UNCHANGED dfsRet
    /\ UNCHANGED <<dfsFiles, fileInfo, dfsSet>>

\* GetFileInfo, lines 497-510: the entry is built with Replicas 1, written to
\* the cache and returned
GetFileInfoWrite(t) ==
    /\ dfsOp[t].pc = "write" /\ dfsOp[t].op = "GetFileInfo"
    /\ LET p == dfsOp[t].path
           info == NewFileInfo(p, dfsFiles[p], 1)
       IN  /\ fileInfo' = MapPut(fileInfo, p, info)
           /\ dfsRet' = DfsReturned("GetFileInfo", p, "ok", <<info>>)
    /\ dfsOp' = [dfsOp EXCEPT ![t] = DfsIdle]
    /\ UNCHANGED <<dfsFiles, dfsSet>>

\* SetReplicationFactor(filePath, replicas), lines 515-527: under the write
\* lock, a factor below 1 and a file that does not exist are refused
SetReplicationFactorCall(t, filePath, replicas) ==
    /\ dfsOp[t].pc = "idle"
    /\ LockFree
    /\ IF replicas < 1
       THEN /\ dfsRet' = DfsReturned("SetReplicationFactor", filePath, "InvalidInput", <<>>)
            /\ UNCHANGED dfsOp
       ELSE IF filePath \notin DOMAIN dfsFiles
       THEN /\ dfsRet' = DfsReturned("SetReplicationFactor", filePath, "IOFailure", <<>>)
            /\ UNCHANGED dfsOp
       ELSE /\ dfsOp' = [dfsOp EXCEPT ![t] = [DfsIdle EXCEPT !.pc = "write",
                                      !.op = "SetReplicationFactor", !.lock = "W",
                                      !.path = filePath, !.r = replicas]]
            /\ UNCHANGED dfsRet
    /\ UNCHANGED <<dfsFiles, fileInfo, dfsSet>>

\* SetReplicationFactor, lines 529-553: the cached entry gets the factor, or
\* an entry with the factor is made
SetReplicationFactorWrite(t) ==
    /\ dfsOp[t].pc = "write" /\ dfsOp[t].op = "SetReplicationFactor"
    /\ LET p == dfsOp[t].path IN
       /\ fileInfo' = IF p \in DOMAIN fileInfo
                      THEN [fileInfo EXCEPT ![p].Replicas = dfsOp[t].r]
                      ELSE MapPut(fileInfo, p, NewFileInfo(p, dfsFiles[p], dfsOp[t].r))
       /\ dfsSet' = MapPut(dfsSet, p, dfsOp[t].r)
       /\ dfsRet' = DfsReturned("SetReplicationFactor", p, "ok", <<>>)
    /\ dfsOp' = [dfsOp EXCEPT ![t] = DfsIdle]
    /\ UNCHANGED dfsFiles

\* UploadFile(filePath, content), lines 377-398: under the write lock the file
\* is created or replaced
UploadFileCall(t, filePath) ==
    /\ dfsOp[t].pc = "idle"
    /\ LockFree
    /\ dfsFiles' = MapPut(dfsFiles, filePath, 1)       \* a content of one byte
    /\ dfsOp' = [dfsOp EXCEPT ![t] = [DfsIdle EXCEPT !.pc = "write", !.op = "UploadFile",
                                      !.lock = "W", !.path = filePath]]
    /\ UNCHANGED <<fileInfo, dfsSet, dfsRet>>

\* UploadFile, lines 400-413: the cache gets a new entry with Replicas 1
UploadFileWrite(t) ==
    /\ dfsOp[t].pc = "write" /\ dfsOp[t].op = "UploadFile"
    /\ LET p == dfsOp[t].path IN
       /\ fileInfo' = MapPut(fileInfo, p, NewFileInfo(p, dfsFiles[p], 1))
       /\ dfsSet' = MapDel(dfsSet, p)
       /\ dfsRet' = DfsReturned("UploadFile", p, "ok", <<>>)
    /\ dfsOp' = [dfsOp EXCEPT ![t] = DfsIdle]
    /\ UNCHANGED dfsFiles

\* DeleteFile(path), lines 340-366: under the write lock the file is removed
DeleteFileCall(t, path) ==
    /\ dfsOp[t].pc = "idle"
    /\ LockFree
    /\ IF path \notin DOMAIN dfsFiles
       THEN /\ dfsRet' = DfsReturned("DeleteFile", path, "IOFailure", <<>>)
            /\ UNCHANGED <<dfsOp, dfsFiles>>
       ELSE /\ dfsFiles' = MapDel(dfsFiles, path)
            /\ dfsOp' = [dfsOp EXCEPT ![t] = [DfsIdle EXCEPT !.pc = "write",
                                      !.op = "DeleteFile", !.lock = "W", !.path = path]]
            /\ UNCHANGED dfsRet
    /\ UNCHANGED <<fileInfo, dfsSet>>

\* DeleteFile, lines 368-372: the entry is deleted from the cache
DeleteFileWrite(t) ==
    /\ dfsOp[t].pc = "write" /\ dfsOp[t].op = "DeleteFile"
    /\ fileInfo' = MapDel(fileInfo, dfsOp[t].path)
    /\ dfsSet' = MapDel(dfsSet, dfsOp[t].path)
    /\ dfsRet' = DfsReturned("DeleteFile", dfsOp[t].path, "ok", <<>>)
    /\ dfsOp' = [dfsOp EXCEPT ![t] = DfsIdle]
    /\ UNCHANGED dfsFiles

\* MoveFile(sourcePath, destPath), lines 444-465: under the write lock the
\* file is renamed, replacing a file at the destination
MoveFileCall(t, sourcePath, destPath) ==
    /\ dfsOp[t].pc = "idle"
    /\ LockFree
    /\ sourcePath # destPath
    /\ IF sourcePath \notin DOMAIN dfsFiles
       THEN /\ dfsRet' = DfsReturned("MoveFile", sourcePath, "IOFailure", <<>>)
            /\ UNCHANGED <<dfsOp, dfsFiles>>
       ELSE /\ dfsFiles' = MapPut(MapDel(dfsFiles, sourcePath), destPath, dfsFiles[sourcePath])
            /\ dfsOp' = [dfsOp EXCEPT ![t] = [DfsIdle EXCEPT !.pc = "write",
                                      !.op = "MoveFile", !.lock = "W",
                                      !.path = sourcePath, !.dest = destPath]]
            /\ UNCHANGED dfsRet
    /\ UNCHANGED <<fileInfo, dfsSet>>

\* MoveFile, lines 467-476: a cached entry of the source goes to the
\* destination with its path and name changed
MoveFileWrite(t) ==
    /\ dfsOp[t].pc = "write" /\ dfsOp[t].op = "MoveFile"
    /\ LET src == dfsOp[t].path
           dst == dfsOp[t].dest
       IN  /\ fileInfo' = IF src \in DOMAIN fileInfo
                          THEN MapPut(MapDel(fileInfo, src), dst,
                                      [fileInfo[src] EXCEPT !.Path = dst, !.Name = dst])
                          ELSE fileInfo
           /\ dfsSet' = MapDel(MapDel(dfsSet, src), dst)
           /\ dfsRet' = DfsReturned("MoveFile", src, "ok", <<>>)
    /\ dfsOp' = [dfsOp EXCEPT ![t] = DfsIdle]
    /\ UNCHANGED dfsFiles

\* NewDistributedFileSystem on an empty rootDir
DfsInit0 ==
    /\ dfsFiles = <<>>
    /\ fileInfo = <<>>
    /\ dfsOp = [t \in DfsCallers |-> DfsIdle]
    /\ dfsSet = <<>>
    /\ dfsRet = DfsReturned("none", "", "ok", <<>>)

(***************************************************************************)
(* Node registry (NodeManager)                                             *)
(***************************************************************************)
NodeIds        == {"n1", "n2"}      \* ids the control plane registers (never empty)
PeerNodeId     == ""                \* Peer.ID, which the overlay registers peers under
Addrs          == {"a1", "a2", "a3"} \* addresses url.Parse accepts
MalformedAddrs == {":bad"}          \* addresses url.Parse rejects
Statuses       == {"active", "inactive", "failed"}
StatusInputs   == Statuses \cup {"bogus"}
CapacityInputs == 0..MaxStorage     \* storageMax values passed to RegisterNode
StorageInputs  == (-1)..MaxStorage  \* storageUsed values passed to UpdateNodeStorage

\* url.Parse(address) returns no error
urlParseOK(address) == address \notin MalformedAddrs


\* an upsert that starts the usage of a known node again from 0
UpsertedNodeResetsUsage(ns, id, address, storageMax, t) ==
    [ID |-> id, Address |-> address, Status |-> "active",
     StorageUsed |-> 0, StorageMax |-> storageMax, LastSeen |-> t]

\* the node RegisterNode creates (id unknown) or updates (id known)
UpsertedNodeKeepsAddress(ns, id, address, storageMax, t) ==
    IF id \notin DOMAIN ns
    THEN [ID |-> id, Address |-> address, Status |-> "active",
          StorageUsed |-> 0, StorageMax |-> storageMax, LastSeen |-> t]
    ELSE [ns[id] EXCEPT !.Status = "active", !.StorageMax = storageMax, !.LastSeen = t]
UpsertedNode(ns, id, address, storageMax, t) ==
    IF id \notin DOMAIN ns
    THEN [ID |-> id, Address |-> address, Status |-> "active",
          StorageUsed |-> 0, StorageMax |-> storageMax, LastSeen |-> t]
    ELSE [ns[id] EXCEPT !.Address = address, !.Status = "active",
                        !.StorageMax = storageMax, !.LastSeen = t]

RegisterNodeNoConflictCheck(ns, as, id, address, storageMax, t) ==
    IF ~urlParseOK(address)
    THEN [err |-> "InvalidInput", nodes |-> ns, nodeAddrs |-> as]
    ELSE [err |-> "ok",
          nodes |-> MapPut(ns, id, UpsertedNode(ns, id, address, storageMax, t)),
          nodeAddrs |-> MapPut(as, address, id)]

\* RegisterNode(id, address, storageMax) at time t on the registry (ns, as):
\* [err, nodes, nodeAddrs]
RegisterNodeResult(ns, as, id, address, storageMax, t) ==
    IF ~urlParseOK(address)
    THEN [err |-> "InvalidInput", nodes |-> ns, nodeAddrs |-> as]
    ELSE IF address \in DOMAIN as /\ as[address] # id
    THEN [err |-> "Conflict", nodes |-> ns, nodeAddrs |-> as]
    ELSE [err |-> "ok",
          nodes |-> MapPut(ns, id, UpsertedNode(ns, id, address, storageMax, t)),
          nodeAddrs |-> MapPut(as, address, id)]

\* history: the addresses id has held, after a RegisterNode call that returned err
heldAfter(id, address, err) ==
    IF err # "ok" THEN held ELSE [held EXCEPT ![id] = @ \cup {address}]

\* what a registry call reports
Returned(op, err) == [op |-> op, err |-> err, removed |-> <<>>, freed |-> {}]

RegisterNode(id, address, storageMax) ==
    LET r == RegisterNodeResult(nodes, nodeAddrs, id, address, storageMax, now) IN
    /\ nodes' = r.nodes
    /\ nodeAddrs' = r.nodeAddrs
    /\ held' = heldAfter(id, address, r.err)
    /\ lastOp' = Returned("register", r.err)
    /\ UNCHANGED now

\* GetNode(id): the node itself (a pointer into the map), or NotFound
GetNode(id) ==
    IF id \in DOMAIN nodes THEN [err |-> "ok", node |-> nodes[id]]
    ELSE [err |-> "NotFound"]

UpdateNodeStatus(id, status) ==
    /\ IF id \notin DOMAIN nodes
       THEN /\ lastOp' = Returned("setStatus", "NotFound")
            /\ UNCHANGED nodes
       ELSE IF status \notin Statuses
       THEN /\ lastOp' = Returned("setStatus", "InvalidInput")
            /\ UNCHANGED nodes
       ELSE /\ nodes' = [nodes EXCEPT ![id].Status = status, ![id].LastSeen = now]
            /\ lastOp' = Returned("setStatus", "ok")
    /\ UNCHANGED <<nodeAddrs, now, held>>

UpdateNodeStorageOverMax(id, storageUsed) ==
    /\ IF id \notin DOMAIN nodes
       THEN /\ lastOp' = Returned("setStorageUsed", "NotFound")
            /\ UNCHANGED nodes
       ELSE IF storageUsed < 0
       THEN /\ lastOp' = Returned("setStorageUsed", "InvalidInput")
            /\ UNCHANGED nodes
       ELSE /\ nodes' = [nodes EXCEPT ![id].StorageUsed = storageUsed,
                                      ![id].LastSeen = now]
            /\ lastOp' = Returned("setStorageUsed", "ok")
    /\ UNCHANGED <<nodeAddrs, now, held>>

UpdateNodeStorage(id, storageUsed) ==
    /\ IF id \notin DOMAIN nodes
       THEN /\ lastOp' = Returned("setStorageUsed", "NotFound")
            /\ UNCHANGED nodes
       ELSE IF storageUsed < 0
       THEN /\ lastOp' = Returned("setStorageUsed", "InvalidInput")
            /\ UNCHANGED nodes
       ELSE IF storageUsed > nodes[id].StorageMax
       THEN /\ lastOp' = Returned("setStorageUsed", "InvalidInput")
            /\ UNCHANGED nodes
       ELSE /\ nodes' = [nodes EXCEPT ![id].StorageUsed = storageUsed,
                                      ![id].LastSeen = now]
            /\ lastOp' = Returned("setStorageUsed", "ok")
    /\ UNCHANGED <<nodeAddrs, now, held>>

RemoveNode(id) ==
    /\ IF id \notin DOMAIN nodes
       THEN /\ lastOp' = Returned("remove", "NotFound")
            /\ UNCHANGED <<nodes, nodeAddrs, held>>
       ELSE /\ nodeAddrs' = MapDel(nodeAddrs, nodes[id].Address)
            /\ nodes' = MapDel(nodes, id)
            /\ lastOp' = [Returned("remove", "ok") EXCEPT !.removed = <<id>>,
                                                       !.freed = held[id]]
            /\ held' = [held EXCEPT ![id] = {}]
    /\ UNCHANGED now

\* a heartbeat that also sets the node active again
HeartbeatNodeRevives(id) ==
    /\ IF id \notin DOMAIN nodes
       THEN /\ lastOp' = Returned("heartbeat", "NotFound")
            /\ UNCHANGED nodes
       ELSE /\ nodes' = [nodes EXCEPT ![id].LastSeen = now, ![id].Status = "active"]
            /\ lastOp' = Returned("heartbeat", "ok")
    /\ UNCHANGED <<nodeAddrs, now, held>>

HeartbeatNode(id) ==
    /\ IF id \notin DOMAIN nodes
       THEN /\ lastOp' = Returned("heartbeat", "NotFound")
            /\ UNCHANGED nodes
       ELSE /\ nodes' = [nodes EXCEPT ![id].LastSeen = now]
            /\ lastOp' = Returned("heartbeat", "ok")
    /\ UNCHANGED <<nodeAddrs, now, held>>

\* the wall clock moves on between two calls
Tick ==
    /\ now < MaxTime
    /\ now' = now + 1
    /\ UNCHANGED <<nodes, nodeAddrs, held, lastOp>>

\* The registry's part of a successful ConnectToPeer(address): the peer is
\* registered under Peer.ID with no declared capacity; the caller drops the
\* result.
RegisterPeerNode(address) == RegisterNode(PeerNodeId, address, 0)

\* the permutations of a set, as sequences
Perms(S) ==
    {f \in [1..Cardinality(S) -> S] : \A x \in S : \E k \in 1..Cardinality(S) : f[k] = x}

\* an element of the list ListNodes returns.  ptr is the node it was made
\* from; copy holds the Node value when the element is a copy (<<node>>), and
\* is empty when the element refers to the node of the map.
ListEntryAliased(id) == [ptr |-> id, copy |-> <<>>]
ListEntry(id) == [ptr |-> id, copy |-> <<nodes[id]>>]

\* the Node value read from an element of a returned list
ListedNode(e) ==
    IF e.copy # <<>> THEN e.copy[1]
    ELSE IF e.ptr \in DOMAIN nodes THEN nodes[e.ptr]
    ELSE [ID |-> e.ptr, Address |-> "", Status |-> "", StorageUsed |-> 0,
          StorageMax |-> 0, LastSeen |-> 0]

\* ListNodes(): one element per node, in the map's iteration order
ListNodes ==
    /\ \E order \in Perms(DOMAIN nodes) :
          listing' = [called |-> TRUE,
                      list   |-> [k \in DOMAIN order |-> ListEntry(order[k])],
                      atCall |-> [k \in DOMAIN order |-> nodes[order[k]]]]
    /\ UNCHANGED regVars

ListInit0 == listing = [called |-> FALSE, list |-> <<>>, atCall |-> <<>>]

RegInit0 ==
    /\ ListInit0
    /\ nodes = <<>>
    /\ nodeAddrs = <<>>
    /\ now = 0
    /\ held = [id \in NodeIds \cup {PeerNodeId} |-> {}]
    /\ lastOp = Returned("none", "ok")

(***************************************************************************)
(* Placement selector (NodeManager.GetOptimalStorageNodes)                 *)
(***************************************************************************)
SelIds == {"n1", "n2", "n3"}        \* the nodes of the registries it is applied to

\* the free space the selector computes for a node
Avail(node) == node.StorageMax - node.StorageUsed

\* the filter of the first loop
Eligible(node, fileSize) == node.Status = "active" /\ Avail(node) >= fileSize

Swap(s, i, j) == [s EXCEPT ![i] = s[j], ![j] = s[i]]

\* the inner loop of the sort, for one i, from j on (1-based positions)
RECURSIVE sortInner(_, _, _)
sortInner(s, i, j) ==
    IF j > Len(s) THEN s
    ELSE sortInner(IF Avail(s[j]) > Avail(s[i]) THEN Swap(s, i, j) ELSE s, i, j + 1)

\* the outer loop of the sort, from i on
RECURSIVE sortOuter(_, _)
sortOuter(s, i) ==
    IF i > Len(s) - 1 THEN s ELSE sortOuter(sortInner(s, i, i + 1), i + 1)

\* the sort left out: the eligible nodes stay in iteration order
unsortedNodes(s) == s
\* the eligible nodes sorted by available space, descending
sortByAvail(s) == sortOuter(s, 1)

\* the orders in which `for _, node := range nm.nodes` may visit the map
IterationOrders ==
    {o \in [1..Cardinality(DOMAIN nodes) -> DOMAIN nodes] :
        \A i, j \in DOMAIN o : i # j => o[i] # o[j]}

\* GetOptimalStorageNodes(fileSize, replicaCount) when the map is visited in
\* `order`: make([]string, n) with n < 0 is a run-time panic.
OptimalStorageNodes(fileSize, replicaCount, order) ==
    LET visited       == [i \in DOMAIN order |-> nodes[order[i]]]
        eligibleNodes == sortByAvail(SelectSeq(visited, LAMBDA n : Eligible(n, fileSize)))
        resultCount   == Min(replicaCount, Len(eligibleNodes))
    IN  IF resultCount < 0 THEN [panic |-> TRUE, result |-> <<>>]
        ELSE [panic |-> FALSE, result |-> [i \in 1..resultCount |-> eligibleNodes[i].ID]]

GetOptimalStorageNodes(fileSize, replicaCount) ==
    /\ \E order \in IterationOrders :
          LET r == OptimalStorageNodes(fileSize, replicaCount, order) IN
          selCall' = [called |-> TRUE, fileSize |-> fileSize,
                      replicaCount |-> replicaCount, panic |-> r.panic,
                      result |-> r.result]
    /\ UNCHANGED <<dfsVars, stopVars, meshVars, chunkVars, regVars, listVars, netVars>>

SelInit0 ==
    selCall = [called |-> FALSE, fileSize |-> 0, replicaCount |-> 0, panic |-> FALSE,
               result |-> <<>>]

ReplicaCounts == (-1)..(Cardinality(SelIds) + 1)

\* the registries the selector is applied to: every node has used at most its
\* declared capacity
SelAddr(id) == CASE id = "n1" -> "a1" [] id = "n2" -> "a2" [] OTHER -> "a3"
SelNodes(id) ==
    {[ID |-> id, Address |-> SelAddr(id), Status |-> st, StorageUsed |-> us,
      StorageMax |-> mx, LastSeen |-> 0] :
        st \in Statuses, mx \in 0..MaxCapacity, us \in 0..MaxCapacity}
SelRegistries ==
    {r \in [SelIds -> UNION {SelNodes(id) : id \in SelIds}] :
        \A id \in SelIds : r[id].ID = id /\ r[id].StorageUsed <= r[id].StorageMax}

(***************************************************************************)
(* Overlay (P2PNetwork)                                                    *)
(***************************************************************************)
Tasks    == {"t1", "t2"}         \* callers of ConnectToPeer that run concurrently
NetAddrs == {"a1", "a2"}         \* addresses that are dialled and that inbound connections come from
PeerIds == {PeerNodeId, "p1"}       \* ids DisconnectPeer is called with
NoPeer  == 0

\* the port the listener is bound to, and the addresses of this host's
\* network interfaces
OurPort        == "9000"
InterfaceAddrs == {"127.0.0.1", "10.0.0.5"}

\* net.SplitHostPort(addr): a1 and a2 are listeners of two other hosts
SplitHostPort(addr) ==
    CASE addr = "a1"             -> [ok |-> TRUE,  host |-> "10.0.0.1",  port |-> "9000"]
      [] addr = "a2"             -> [ok |-> TRUE,  host |-> "10.0.0.2",  port |-> "9000"]
      [] addr = "localhost:9000" -> [ok |-> TRUE,  host |-> "localhost", port |-> "9000"]
      [] addr = "localhost:9001" -> [ok |-> TRUE,  host |-> "localhost", port |-> "9001"]
      [] addr = "10.0.0.5:9000"  -> [ok |-> TRUE,  host |-> "10.0.0.5",  port |-> "9000"]
      [] OTHER                   -> [ok |-> FALSE, host |-> "",          port |-> ""]

\* a self test that looks at the host only
isSelfAddressAnyPort(addr) ==
    LET hp == SplitHostPort(addr) IN
    hp.ok /\ (hp.host \in {"localhost", "127.0.0.1"} \/ hp.host \in InterfaceAddrs)

\* isSelfAddress(addr): the host is the loopback or one of the interface
\* addresses, and the port is the listener's
isSelfAddress(addr) ==
    LET hp == SplitHostPort(addr) IN
    IF ~hp.ok THEN FALSE
    ELSE IF hp.host = "localhost" \/ hp.host = "127.0.0.1" THEN hp.port = OurPort
    ELSE IF hp.host \in InterfaceAddrs THEN hp.port = OurPort
    ELSE FALSE

\* net.DialTimeout can connect to the address: it names a host and a port
Dialable(addr) == SplitHostPort(addr).ok

\* callers of BroadcastMessage
Broadcasters == {"b1"}

\* the caller is inside BroadcastMessage, between RLock and the deferred RUnlock
HoldsReadLock(b) == bcast[b].pc # "idle"

\* p.mu can be write-locked: no BroadcastMessage call holds its read lock
\* (the other read-locked sections are single steps here)
WriteLockFree == \A b \in Broadcasters : bcast[b].pc = "idle"

\* the Peer structs the map points to
MapPeers == {peers[a] : a \in DOMAIN peers}

\* the scan at the head of ConnectToPeer: the peers of the map that have this
\* address and are active
ActivePeersById(address) ==
    {i \in MapPeers : peerObjs[i].ID = address /\ peerObjs[i].IsActive}
ActivePeersAt(address) ==
    {i \in MapPeers : peerObjs[i].Address = address /\ peerObjs[i].IsActive}

\* a caller enters ConnectToPeer(address)
ConnectToPeerCall(t, address) ==
    /\ conn[t].pc = "idle"
    /\ conn' = [conn EXCEPT ![t] = [pc |-> "check", addr |-> address,
                                    peer |-> NoPeer, err |-> "none"]]
    /\ UNCHANGED <<peerObjs, peers, netRet, regVars>>

\* lines 156-163: under the read lock, return the active peer of that address
ConnectToPeerCheck(t) ==
    /\ conn[t].pc = "check"
    /\ IF ActivePeersAt(conn[t].addr) # {}
       THEN \E i \in ActivePeersAt(conn[t].addr) :
               conn' = [conn EXCEPT ![t].pc = "done", ![t].peer = i, ![t].err = "ok"]
       ELSE conn' = [conn EXCEPT ![t].pc = "dial"]
    /\ UNCHANGED <<peerObjs, peers, netRet, regVars>>

\* a connect that revives the Peer the map holds for the address
ConnectToPeerReactivates(t) ==
    /\ conn[t].pc = "dial"
    /\ Dialable(conn[t].addr)
    /\ IF conn[t].addr \in DOMAIN peers
       THEN /\ peerObjs' = [peerObjs EXCEPT ![peers[conn[t].addr]].IsActive = TRUE,
                                            ![peers[conn[t].addr]].ConnOpen = TRUE,
                                            ![peers[conn[t].addr]].reader = "running"]
            /\ conn' = [conn EXCEPT ![t].pc = "add", ![t].peer = peers[conn[t].addr]]
       ELSE /\ Len(peerObjs) < MaxPeerObjs
            /\ peerObjs' = Append(peerObjs, [ID |-> PeerNodeId, Address |-> conn[t].addr,
                                             IsActive |-> TRUE, ConnOpen |-> TRUE,
                                             reader |-> "running"])
            /\ conn' = [conn EXCEPT ![t].pc = "add", ![t].peer = Len(peerObjs) + 1]
    /\ UNCHANGED <<peers, netRet, regVars>>

\* lines 166-180: the dial succeeds, the Peer is created and its reader started
ConnectToPeerDial(t) ==
    /\ conn[t].pc = "dial"
    /\ Dialable(conn[t].addr)
    /\ Len(peerObjs) < MaxPeerObjs
    /\ peerObjs' = Append(peerObjs, [ID |-> PeerNodeId, Address |-> conn[t].addr,
                                     IsActive |-> TRUE, ConnOpen |-> TRUE,
                                     reader |-> "running"])
    /\ conn' = [conn EXCEPT ![t].pc = "add", ![t].peer = Len(peerObjs) + 1]
    /\ UNCHANGED <<peers, netRet, regVars>>

\* lines 166-169: the dial fails (refused, or timed out after 5 seconds)
ConnectToPeerDialFails(t) ==
    /\ conn[t].pc = "dial"
    /\ conn' = [conn EXCEPT ![t].pc = "done", ![t].err = "IOFailure"]
    /\ UNCHANGED <<peerObjs, peers, netRet, regVars>>

\* lines 183-185: under the write lock, the peer goes into the map
ConnectToPeerAdd(t) ==
    /\ conn[t].pc = "add"
    /\ WriteLockFree
    /\ peers' = MapPut(peers, conn[t].addr, conn[t].peer)
    /\ conn' = [conn EXCEPT ![t].pc = "register"]
    /\ UNCHANGED <<peerObjs, netRet, now>>
    /\ UNCHANGED <<nodes, nodeAddrs, held, lastOp>>

\* lines 188-190: the node entry is upserted and the peer returned
ConnectToPeerRegister(t) ==
    /\ conn[t].pc = "register"
    /\ RegisterPeerNode(conn[t].addr)
    /\ conn' = [conn EXCEPT ![t].pc = "done", ![t].err = "ok"]
    /\ UNCHANGED <<peerObjs, peers, netRet>>

\* the caller has the result; the task may call again
ConnectToPeerReturn(t) ==
    /\ conn[t].pc = "done"
    /\ conn' = [conn EXCEPT ![t] = [pc |-> "idle", addr |-> "", peer |-> NoPeer,
                                    err |-> "none"]]
    /\ UNCHANGED <<peerObjs, peers, netRet, regVars>>

\* acceptConnections: an inbound connection from remote address addr becomes a
\* peer of the map, with its own reader
acceptConnections(addr) ==
    /\ Len(peerObjs) < MaxPeerObjs
    /\ WriteLockFree
    /\ peerObjs' = Append(peerObjs, [ID |-> PeerNodeId, Address |-> addr,
                                     IsActive |-> TRUE, ConnOpen |-> TRUE,
                                     reader |-> "running"])
    /\ peers' = MapPut(peers, addr, Len(peerObjs) + 1)
    /\ UNCHANGED <<conn, netRet, regVars>>

\* a reader that ends without marking its peer inactive
handleConnectionExitStaysActive(i) ==
    /\ i \in DOMAIN peerObjs
    /\ peerObjs[i].reader = "running"
    /\ rd[i].pc = "read"
    /\ WriteLockFree
    /\ peerObjs' = [peerObjs EXCEPT ![i].reader = "done", ![i].ConnOpen = FALSE]
    /\ UNCHANGED <<peers, conn, netRet, regVars>>

\* handleConnection ends (a read failed: the remote closed, or the socket was
\* closed here): the deferred function closes the socket and clears IsActive
handleConnectionExit(i) ==
    /\ i \in DOMAIN peerObjs
    /\ peerObjs[i].reader = "running"
    /\ rd[i].pc = "read"
    /\ WriteLockFree
    /\ peerObjs' = [peerObjs EXCEPT ![i].reader = "done", ![i].ConnOpen = FALSE,
                                    ![i].IsActive = FALSE]
    /\ UNCHANGED <<peers, conn, netRet, regVars>>

\* a disconnect that, given an id no peer has, drops the whole map
DisconnectPeerUnknownClears(peerID) ==
    /\ WriteLockFree
    /\ IF \E i \in MapPeers : peerObjs[i].ID = peerID
       THEN \E i \in MapPeers :
               /\ peerObjs[i].ID = peerID
               /\ peerObjs' = [peerObjs EXCEPT ![i].ConnOpen = FALSE]
               /\ peers' = MapDel(peers, peerObjs[i].Address)
               /\ netRet' = [op |-> "disconnect", peerID |-> peerID, err |-> "ok"]
       ELSE /\ netRet' = [op |-> "disconnect", peerID |-> peerID, err |-> "NotFound"]
            /\ peers' = <<>>
            /\ UNCHANGED peerObjs
    /\ UNCHANGED <<conn, regVars>>

\* a disconnect that removes every peer of the map that has the id
DisconnectPeerAllWithId(peerID) ==
    /\ WriteLockFree
    /\ IF \E i \in MapPeers : peerObjs[i].ID = peerID
       THEN /\ peerObjs' = [i \in DOMAIN peerObjs |->
                              IF i \in MapPeers /\ peerObjs[i].ID = peerID
                              THEN [peerObjs[i] EXCEPT !.ConnOpen = FALSE]
                              ELSE peerObjs[i]]
            /\ peers' = [a \in {x \in DOMAIN peers : peerObjs[peers[x]].ID # peerID} |->
                           peers[a]]
            /\ netRet' = [op |-> "disconnect", peerID |-> peerID, err |-> "ok"]
       ELSE /\ netRet' = [op |-> "disconnect", peerID |-> peerID, err |-> "NotFound"]
            /\ UNCHANGED <<peerObjs, peers>>
    /\ UNCHANGED <<conn, regVars>>

\* DisconnectPeer(peerID): the first peer of the map (in iteration order) with
\* that id has its socket closed and its map entry deleted
DisconnectPeer(peerID) ==
    /\ WriteLockFree
    /\ IF \E i \in MapPeers : peerObjs[i].ID = peerID
       THEN \E i \in MapPeers :
               /\ peerObjs[i].ID = peerID
               /\ peerObjs' = [peerObjs EXCEPT ![i].ConnOpen = FALSE]
               /\ peers' = MapDel(peers, peerObjs[i].Address)
               /\ netRet' = [op |-> "disconnect", peerID |-> peerID, err |-> "ok"]
       ELSE /\ netRet' = [op |-> "disconnect", peerID |-> peerID, err |-> "NotFound"]
            /\ UNCHANGED <<peerObjs, peers>>
    /\ UNCHANGED <<conn, regVars>>


(***************************************************************************)
(* Overlay: frames (Peer.Send, BroadcastMessage, the loop of               *)
(* handleConnection)                                                       *)
(***************************************************************************)
\* envelopes of every kind of outcome: answered, handled in silence, without a
\* handler, refused by the handler
ReplyFrames == {"ping", "pong", "discovery", "filerequest", "fileinfo", "filechunk", "error",
                "badannouncement"}
PeerSlots  == 1..MaxPeerObjs

\* the frames the remotes have sent so far
RECURSIVE FramesSent(_)
FramesSent(n) ==
    IF n = 0 THEN 0 ELSE Len(rd[n].got) + Len(inbox[n]) + FramesSent(n - 1)

\* DecodeMessage(msgBuf) returns no error
DecodeOK(frame) == frame # "bad"

\* the check at the head of Peer.Send (Conn is never nil)
SendAllowed(i) == peerObjs[i].IsActive

\* Conn.Write succeeds: the socket is open at both ends
Writable(i) == peerObjs[i].ConnOpen /\ remoteUp[i]

\* one Conn.Write of Peer.Send on the socket of peer i: part is "len" (the
\* 4-byte prefix) or "data" (the payload), by names the Send call
ConnWrite(w, i, part, by) == [w EXCEPT ![i] = Append(@, [part |-> part, by |-> by])]

\* the peers BroadcastMessage still visits after a Send returned: the result
\* of Send is dropped and the loop goes on
RemainingAbortOnError(todo, ok) == IF ok THEN todo ELSE {}
RemainingAfterSend(todo, ok) == todo

\* a remote writes a frame on its connection
RemoteSends(i, frame) ==
    /\ i \in DOMAIN peerObjs
    /\ remoteUp[i]
    /\ FramesSent(MaxPeerObjs) < MaxFrames
    /\ inbox' = [inbox EXCEPT ![i] = Append(@, frame)]
    /\ UNCHANGED <<peerObjs, peers, conn, netRet, wire, rd, remoteUp, bcast, regVars>>

\* a remote closes its end
RemoteCloses(i) ==
    /\ i \in DOMAIN peerObjs
    /\ remoteUp[i]
    /\ remoteUp' = [remoteUp EXCEPT ![i] = FALSE]
    /\ UNCHANGED <<peerObjs, peers, conn, netRet, wire, inbox, rd, bcast, regVars>>

\* the NodeAnnouncement frames the remotes send, with the address lists of
\* their payloads
AnnouncedAddrs ==
    [annRemotes |-> <<"a1", "a2">>,
     annSelf    |-> <<"localhost:9000", "a1">>,
     annLocal   |-> <<"10.0.0.5:9000", "localhost:9001">>,
     annNoPort  |-> <<"noport", "a2">>]
AnnounceFrames == DOMAIN AnnouncedAddrs

\* Message.Type of a frame that decodes ("badannouncement" is a
\* NodeAnnouncement whose payload is not a list of strings)
FrameType(frame) ==
    IF frame \in AnnounceFrames \cup {"badannouncement"} THEN "announcement" ELSE frame

\* p.handlers has a handler for the type (Start registers these four)
HasHandler(frame) == FrameType(frame) \in {"ping", "pong", "discovery", "announcement"}

\* every key of the map but the requester's address, active or not
AllOthers(i) == {a \in DOMAIN peers : a # peerObjs[i].Address}

\* handleNodeDiscovery, lines 362-368: the keys of the map whose peer is
\* active, the requester's address left out
ActiveOthers(i) ==
    {a \in DOMAIN peers : peerObjs[peers[a]].IsActive /\ a # peerObjs[i].Address}

\* the message the handler of the frame sends back on the peer (<<>>: none)
ReplyTo(i, frame) ==
    IF frame = "ping" THEN <<[type |-> "pong", payload |-> {}]>>
    ELSE IF frame = "discovery" THEN <<[type |-> "announcement", payload |-> ActiveOthers(i)]>>
    ELSE <<>>

\* the variant that heartbeats the node registered at the peer's address
RefreshNodeByAddress(i, frame) ==
    IF frame \in {"ping", "pong"} /\ peerObjs[i].Address \in DOMAIN nodeAddrs
    THEN HeartbeatNode(nodeAddrs[peerObjs[i].Address])
    ELSE UNCHANGED regVars

\* handlePing and handlePong, lines 336-338 and 353-355: the node of a peer
\* that has an id is heartbeated
RefreshNode(i, frame) ==
    IF frame \in {"ping", "pong"} /\ peerObjs[i].ID # ""
    THEN HeartbeatNode(peerObjs[i].ID)
    ELSE UNCHANGED regVars

\* handleNodeAnnouncement, lines 396-408: the addresses a connect is started for
ConnectTargets(frame) ==
    IF frame \in AnnounceFrames
    THEN SelectSeq(AnnouncedAddrs[frame], LAMBDA a : ~isSelfAddress(a))
    ELSE <<>>

\* the goroutines that can be started: the tasks that run no ConnectToPeer
TaskOrder == <<"t1", "t2">>
IdleTasks == SelectSeq(TaskOrder, LAMBDA t : conn[t].pc = "idle")

\* go ConnectToPeer(address) for each target, each in a goroutine of its own
Spawned(targets) ==
    [t \in Tasks |->
        IF \E k \in 1..Len(targets) : IdleTasks[k] = t
        THEN [pc |-> "check",
              addr |-> targets[CHOOSE k \in 1..Len(targets) : IdleTasks[k] = t],
              peer |-> NoPeer, err |-> "none"]
        ELSE conn[t]]

\* a reader that gives the connection up on a frame it has no handler for or
\* whose handler returns an error
handleConnectionReadDropsUnhandled(i) ==
    /\ i \in DOMAIN peerObjs
    /\ peerObjs[i].reader = "running"
    /\ peerObjs[i].ConnOpen
    /\ rd[i].pc = "read"
    /\ inbox[i] # <<>>
    /\ LET frame == Head(inbox[i]) IN
       /\ Len(ConnectTargets(frame)) <= Len(IdleTasks)
       /\ inbox' = [inbox EXCEPT ![i] = Tail(@)]
       /\ IF ~DecodeOK(frame)
          THEN /\ rd' = [rd EXCEPT ![i].got = Append(@, frame)]
               /\ UNCHANGED <<peerObjs, conn, regVars>>
          ELSE IF ~HasHandler(frame) \/ frame = "badannouncement"
          THEN /\ rd' = [rd EXCEPT ![i].got = Append(@, frame)]
               /\ peerObjs' = [peerObjs EXCEPT ![i].reader = "done",
                                               ![i].ConnOpen = FALSE,
                                               ![i].IsActive = FALSE]
               /\ UNCHANGED <<conn, regVars>>
          ELSE /\ rd' = [rd EXCEPT ![i].got = Append(@, frame),
                                   ![i].dispatched = Append(@, frame),
                                   ![i].reply = ReplyTo(i, frame),
                                   ![i].pc = IF ReplyTo(i, frame) # <<>> /\ SendAllowed(i)
                                             THEN "sendLen" ELSE "read"]
               /\ conn' = Spawned(ConnectTargets(frame))
               /\ RefreshNode(i, frame)
               /\ UNCHANGED peerObjs
    /\ UNCHANGED <<peers, netRet, wire, remoteUp, bcast>>

\* a reader that gives the connection up on a frame that does not decode
handleConnectionReadStops(i) ==
    /\ i \in DOMAIN peerObjs
    /\ peerObjs[i].reader = "running"
    /\ peerObjs[i].ConnOpen
    /\ rd[i].pc = "read"
    /\ inbox[i] # <<>>
    /\ LET frame == Head(inbox[i]) IN
       /\ Len(ConnectTargets(frame)) <= Len(IdleTasks)
       /\ inbox' = [inbox EXCEPT ![i] = Tail(@)]
       /\ IF ~DecodeOK(frame)
          THEN /\ rd' = [rd EXCEPT ![i].got = Append(@, frame)]
               /\ peerObjs' = [peerObjs EXCEPT ![i].reader = "done",
                                               ![i].ConnOpen = FALSE,
                                               ![i].IsActive = FALSE]
               /\ UNCHANGED <<conn, regVars>>
          ELSE IF ~HasHandler(frame)
          THEN /\ rd' = [rd EXCEPT ![i].got = Append(@, frame)]
               /\ UNCHANGED <<peerObjs, conn, regVars>>
          ELSE /\ rd' = [rd EXCEPT ![i].got = Append(@, frame),
                                   ![i].dispatched = Append(@, frame),
                                   ![i].reply = ReplyTo(i, frame),
                                   ![i].pc = IF ReplyTo(i, frame) # <<>> /\ SendAllowed(i)
                                             THEN "sendLen" ELSE "read"]
               /\ conn' = Spawned(ConnectTargets(frame))
               /\ RefreshNode(i, frame)
               /\ UNCHANGED peerObjs
    /\ UNCHANGED <<peers, netRet, wire, remoteUp, bcast>>

\* handleConnection, lines 287-330: one turn of the loop, the handler
\* included up to its Send.  Both ReadFull calls return a whole frame; a frame
\* that does not decode, or whose type has no handler, is logged and the loop
\* continues; a decoded frame goes to its handler: handlePing and
\* handleNodeDiscovery send a reply on the same peer, handleNodeAnnouncement
\* starts the connects and returns.  What a handler returns is logged.
handleConnectionRead(i) ==
    /\ i \in DOMAIN peerObjs
    /\ peerObjs[i].reader = "running"
    /\ peerObjs[i].ConnOpen
    /\ rd[i].pc = "read"
    /\ inbox[i] # <<>>
    /\ LET frame == Head(inbox[i]) IN
       /\ Len(ConnectTargets(frame)) <= Len(IdleTasks)
       /\ inbox' = [inbox EXCEPT ![i] = Tail(@)]
       /\ IF ~DecodeOK(frame) \/ ~HasHandler(frame)
          THEN /\ rd' = [rd EXCEPT ![i].got = Append(@, frame)]
               /\ UNCHANGED <<conn, regVars>>
          ELSE /\ rd' = [rd EXCEPT ![i].got = Append(@, frame),
                                   ![i].dispatched = Append(@, frame),
                                   ![i].reply = ReplyTo(i, frame),
                                   ![i].pc = IF ReplyTo(i, frame) # <<>> /\ SendAllowed(i)
                                             THEN "sendLen" ELSE "read"]
               /\ conn' = Spawned(ConnectTargets(frame))
               /\ RefreshNode(i, frame)
    /\ UNCHANGED <<peerObjs, peers, netRet, wire, remoteUp, bcast>>

\* Peer.Send called by the handler, lines 457-461: the length prefix
handlePingSendLen(i) ==
    /\ i \in DOMAIN peerObjs
    /\ rd[i].pc = "sendLen"
    /\ IF Writable(i)
       THEN /\ wire' = ConnWrite(wire, i, "len", <<rd[i].reply[1].type, i, Len(rd[i].got)>>)
            /\ rd' = [rd EXCEPT ![i].pc = "sendData"]
       ELSE /\ rd' = [rd EXCEPT ![i].pc = "read"]
            /\ UNCHANGED wire
    /\ UNCHANGED <<peerObjs, peers, conn, netRet, inbox, remoteUp, bcast, regVars>>

\* Peer.Send called by the handler, lines 464-466: the payload
handlePingSendData(i) ==
    /\ i \in DOMAIN peerObjs
    /\ rd[i].pc = "sendData"
    /\ IF Writable(i)
       THEN wire' = ConnWrite(wire, i, "data", <<rd[i].reply[1].type, i, Len(rd[i].got)>>)
       ELSE UNCHANGED wire
    /\ rd' = [rd EXCEPT ![i].pc = "read"]
    /\ UNCHANGED <<peerObjs, peers, conn, netRet, inbox, remoteUp, bcast, regVars>>

\* BroadcastMessage, lines 139-142: the read lock is taken and the range over
\* p.peers begins
BroadcastMessageCall(b) ==
    /\ bcast[b].pc = "idle"
    /\ bcast[b].calls < MaxBroadcasts
    /\ bcast' = [bcast EXCEPT ![b] =
                   [pc |-> "loop", calls |-> @.calls + 1, todo |-> MapPeers,
                    cur |-> NoPeer, activeAtCall |-> {i \in MapPeers : peerObjs[i].IsActive},
                    attempted |-> <<>>, failed |-> {}]]
    /\ UNCHANGED <<peerObjs, peers, conn, netRet, wire, inbox, rd, remoteUp, regVars>>

\* lines 142-148: the next peer of the range (in the map's iteration order);
\* an active one is sent the message
BroadcastMessageNext(b) ==
    /\ bcast[b].pc = "loop"
    /\ \E i \in bcast[b].todo :
          bcast' = [bcast EXCEPT
                      ![b].todo = @ \ {i},
                      ![b].cur = IF peerObjs[i].IsActive /\ SendAllowed(i) THEN i ELSE NoPeer,
                      ![b].pc = IF peerObjs[i].IsActive /\ SendAllowed(i)
                                THEN "sendLen" ELSE "loop",
                      ![b].attempted = IF peerObjs[i].IsActive THEN Append(@, i) ELSE @]
    /\ UNCHANGED <<peerObjs, peers, conn, netRet, wire, inbox, rd, remoteUp, regVars>>

\* Peer.Send called by BroadcastMessage, lines 457-461: the length prefix
BroadcastMessageSendLen(b) ==
    /\ bcast[b].pc = "sendLen"
    /\ LET i == bcast[b].cur IN
       IF Writable(i)
       THEN /\ wire' = ConnWrite(wire, i, "len", <<"bcast", b, bcast[b].calls>>)
            /\ bcast' = [bcast EXCEPT ![b].pc = "sendData"]
       ELSE /\ bcast' = [bcast EXCEPT ![b].pc = "loop", ![b].cur = NoPeer,
                                      ![b].failed = @ \cup {i},
                                      ![b].todo = RemainingAfterSend(@, FALSE)]
            /\ UNCHANGED wire
    /\ UNCHANGED <<peerObjs, peers, conn, netRet, inbox, rd, remoteUp, regVars>>

\* Peer.Send called by BroadcastMessage, lines 464-466: the payload
BroadcastMessageSendData(b) ==
    /\ bcast[b].pc = "sendData"
    /\ LET i == bcast[b].cur IN
       IF Writable(i)
       THEN /\ wire' = ConnWrite(wire, i, "data", <<"bcast", b, bcast[b].calls>>)
            /\ bcast' = [bcast EXCEPT ![b].pc = "loop", ![b].cur = NoPeer,
                                      ![b].todo = RemainingAfterSend(@, TRUE)]
       ELSE /\ bcast' = [bcast EXCEPT ![b].pc = "loop", ![b].cur = NoPeer,
                                      ![b].failed = @ \cup {i},
                                      ![b].todo = RemainingAfterSend(@, FALSE)]
            /\ UNCHANGED wire
    /\ UNCHANGED <<peerObjs, peers, conn, netRet, inbox, rd, remoteUp, regVars>>

\* the range is over: the read lock is released and the call returns
BroadcastMessageReturn(b) ==
    /\ bcast[b].pc = "loop"
    /\ bcast[b].todo = {}
    /\ bcast' = [bcast EXCEPT ![b].pc = "idle"]
    /\ UNCHANGED <<peerObjs, peers, conn, netRet, wire, inbox, rd, remoteUp, regVars>>

SendInit0 ==
    /\ wire = [i \in PeerSlots |-> <<>>]
    /\ inbox = [i \in PeerSlots |-> <<>>]
    /\ rd = [i \in PeerSlots |-> [pc |-> "read", got |-> <<>>, dispatched |-> <<>>,
                                reply |-> <<>>]]
    /\ remoteUp = [i \in PeerSlots |-> TRUE]
    /\ bcast = [b \in Broadcasters |->
                  [pc |-> "idle", calls |-> 0, todo |-> {}, cur |-> NoPeer,
                   activeAtCall |-> {}, attempted |-> <<>>, failed |-> {}]]

(***************************************************************************)
(* Several nodes (one P2PNetwork each) that find each other by             *)
(* NodeDiscovery / NodeAnnouncement                                        *)
(***************************************************************************)
MaxInFlight == 1                    \* messages on their way at a time

MeshNodes == {"A", "B", "C"}

\* the address a node's listener is bound to
Listener == [n \in MeshNodes |->
               CASE n = "A" -> "A:9000" [] n = "B" -> "B:9000" [] n = "C" -> "C:9000"]

\* the local address of the socket node n dialled node m with (net.Dial picks
\* a free port), which is the RemoteAddr() of that connection at m
EphemeralAddr ==
    [n \in MeshNodes |-> [m \in MeshNodes |->
        CASE n = "A" /\ m = "B" -> "A:50002" [] n = "A" /\ m = "C" -> "A:50003"
          [] n = "B" /\ m = "A" -> "B:50001" [] n = "B" /\ m = "C" -> "B:50003"
          [] n = "C" /\ m = "A" -> "C:50001" [] n = "C" /\ m = "B" -> "C:50002"
          [] OTHER -> "none"]]

ListenerAddrs == {Listener[n] : n \in MeshNodes}
MeshAddrs ==
    ListenerAddrs \cup ({EphemeralAddr[n][m] : n \in MeshNodes, m \in MeshNodes} \ {"none"})

\* the host part of an address: the node the address belongs to
HostOf(addr) ==
    CHOOSE n \in MeshNodes :
        addr = Listener[n] \/ \E m \in MeshNodes \ {n} : addr = EphemeralAddr[n][m]

\* isSelfAddress at node n: the host is one of n's interface addresses and
\* the port is the port of n's listener
isSelfAddressAt(n, addr) == addr = Listener[n]

\* the key (Peer.Address) under which the other end of n's connection k has n:
\* the RemoteAddr() of the connection if n dialled it, the address that was
\* dialled if n accepted it
RemoteKey(n, k) ==
    IF k \in ListenerAddrs THEN EphemeralAddr[n][HostOf(k)] ELSE Listener[n]

\* the scan at the head of ConnectToPeer
MeshConnected(n, address) ==
    address \in DOMAIN mPeers[n] /\ mPeers[n][address].IsActive

\* go ConnectToPeer(address) at node n runs.  An address that has an active
\* peer returns that peer.  net.DialTimeout succeeds on the address of a
\* listener and is refused on any other; on success the peer goes into n's
\* map under the dialled address and is registered with n's node manager,
\* and the accept loop of the node dialled puts a peer into its map under
\* the connection's remote address.
MeshConnectToPeer(n, address) ==
    /\ address \in mDials[n]
    /\ mDials' = [mDials EXCEPT ![n] = @ \ {address}]
    /\ IF MeshConnected(n, address) \/ address \notin ListenerAddrs
       THEN UNCHANGED <<mPeers, mReg>>
       ELSE LET m == HostOf(address)
                r == RegisterNodeResult(mReg[n].nodes, mReg[n].nodeAddrs,
                                        PeerNodeId, address, 0, now)
            IN  /\ mPeers' = [mPeers EXCEPT
                                ![n] = MapPut(@, address, [IsActive |-> TRUE]),
                                ![m] = MapPut(@, EphemeralAddr[n][m], [IsActive |-> TRUE])]
                /\ mReg' = [mReg EXCEPT ![n] = [nodes |-> r.nodes, nodeAddrs |-> r.nodeAddrs]]
    /\ UNCHANGED mNet

\* node n sends a NodeDiscovery to the peer it has under key k; it does so
\* when the connects that were started have run
MeshSendDiscovery(n, k) ==
    /\ MeshConnected(n, k)
    /\ Cardinality(mNet) < MaxInFlight
    /\ \A x \in MeshNodes : mDials[x] = {}
    /\ mNet' = mNet \cup {[type |-> "discovery", from |-> n, to |-> HostOf(k),
                           key |-> RemoteKey(n, k), payload |-> {}]}
    /\ UNCHANGED <<mPeers, mReg, mDials>>

\* handleNodeDiscovery at the receiver: the keys of its active peers but the
\* requester's go back in a NodeAnnouncement
MeshHandleNodeDiscovery(msg) ==
    /\ msg \in mNet /\ msg.type = "discovery"
    /\ LET m == msg.to
           peerAddrs == {a \in DOMAIN mPeers[m] : mPeers[m][a].IsActive /\ a # msg.key}
       IN  mNet' = (mNet \ {msg}) \cup
                      {[type |-> "announcement", from |-> m, to |-> msg.from,
                        key |-> RemoteKey(m, msg.key), payload |-> peerAddrs]}
    /\ UNCHANGED <<mPeers, mReg, mDials>>

\* handleNodeAnnouncement at the receiver: a goroutine that calls
\* ConnectToPeer is started for every address that is not its own (goroutines
\* for the same address are kept as one)
MeshHandleNodeAnnouncement(msg) ==
    /\ msg \in mNet /\ msg.type = "announcement"
    /\ mDials' = [mDials EXCEPT ![msg.to] =
                    @ \cup {a \in msg.payload : ~isSelfAddressAt(msg.to, a)}]
    /\ mNet' = mNet \ {msg}
    /\ UNCHANGED <<mPeers, mReg>>

\* no node has been started
MeshInit0 ==
    /\ mPeers = [n \in MeshNodes |-> <<>>]
    /\ mReg = [n \in MeshNodes |-> [nodes |-> <<>>, nodeAddrs |-> <<>>]]
    /\ mDials = [n \in MeshNodes |-> {}]
    /\ mNet = {}

\* the peer lists the nodes are started with (-peers): every node is linked
\* to every other through them
PeerLists ==
    {pl \in [MeshNodes -> SUBSET MeshNodes] :
        /\ \A n \in MeshNodes : n \notin pl[n]
        /\ \A S \in SUBSET MeshNodes :
              (S # {} /\ S # MeshNodes) =>
                 \E n \in S, m \in MeshNodes \ S : m \in pl[n] \/ n \in pl[m]}

\* main: connectToPeers starts a goroutine that calls ConnectToPeer for every
\* address of the node's peer list
MeshInitWith(pl) ==
    /\ mPeers = [n \in MeshNodes |-> <<>>]
    /\ mReg = [n \in MeshNodes |-> [nodes |-> <<>>, nodeAddrs |-> <<>>]]
    /\ mDials = [n \in MeshNodes |-> {Listener[m] : m \in pl[n]}]
    /\ mNet = {}

(***************************************************************************)
(* Overlay: the accept loop and Stop                                       *)
(***************************************************************************)
\* acceptConnections, line 244: the loop condition reads p.isRunning without a
\* lock while Stop writes it under p.mu; a read that follows the write may
\* still see the old value
acceptLoopCheck(seen) ==
    /\ acceptLoop = "check"
    /\ seen \in (IF isRunning THEN {TRUE} ELSE {TRUE, FALSE})
    /\ acceptLoop' = IF seen THEN "accept" ELSE "done"
    /\ UNCHANGED <<isRunning, listenerOpen, accepted, stopCall, netVars, regVars>>

\* lines 245 and 254-268: Accept returns an inbound connection from addr and
\* the goroutine that will make it a peer is started
listenerAccept(addr) ==
    /\ acceptLoop = "accept"
    /\ listenerOpen
    /\ addr \notin accepted
    /\ Len(peerObjs) + Cardinality(accepted) < MaxPeerObjs
    /\ accepted' = accepted \cup {addr}
    /\ acceptLoop' = "check"
    /\ UNCHANGED <<isRunning, listenerOpen, stopCall, netVars, regVars>>

\* lines 245-251: Accept on the closed listener returns an error and the loop
\* goes on
listenerAcceptFails ==
    /\ acceptLoop = "accept"
    /\ ~listenerOpen
    /\ acceptLoop' = "check"
    /\ UNCHANGED <<isRunning, listenerOpen, accepted, stopCall, netVars, regVars>>

\* lines 254-268: the goroutine of an accepted connection puts its peer into
\* the map and starts reading
acceptGoroutine(addr) ==
    /\ addr \in accepted
    /\ acceptConnections(addr)
    /\ accepted' = accepted \ {addr}
    /\ UNCHANGED <<isRunning, listenerOpen, acceptLoop, stopCall, sendVars>>

\* Stop, lines 112-114: the listener is closed
StopCloseListener ==
    /\ stopCall.pc = "idle"
    /\ listenerOpen' = FALSE
    /\ stopCall' = [stopCall EXCEPT !.pc = "lock"]
    /\ UNCHANGED <<isRunning, acceptLoop, accepted, netVars, regVars>>

\* Stop, lines 116-126: under the write lock the socket of every peer of the
\* map is closed and isRunning is cleared
StopLocked ==
    /\ stopCall.pc = "lock"
    /\ WriteLockFree
    /\ peerObjs' = [i \in DOMAIN peerObjs |->
                      IF i \in MapPeers THEN [peerObjs[i] EXCEPT !.ConnOpen = FALSE]
                      ELSE peerObjs[i]]
    /\ isRunning' = FALSE
    /\ stopCall' = [pc |-> "done", atStop |-> MapPeers]
    /\ UNCHANGED <<listenerOpen, acceptLoop, accepted, peers, conn, netRet, sendVars, regVars>>

\* handleConnection, lines 287-295: the read on a socket that was closed
\* fails and the reader ends
readOnClosedFails(i) ==
    /\ i \in DOMAIN peerObjs
    /\ ~peerObjs[i].ConnOpen
    /\ handleConnectionExit(i)
    /\ UNCHANGED <<sendVars, stopVars>>

StopInit0 ==
    /\ isRunning = TRUE
    /\ listenerOpen = TRUE
    /\ acceptLoop = "check"
    /\ accepted = {}
    /\ stopCall = [pc |-> "idle", atStop |-> {}]

OverlayInit0 ==
    /\ SendInit0
    /\ StopInit0
    /\ peerObjs = <<>>
    /\ peers = <<>>
    /\ conn = [t \in Tasks |-> [pc |-> "idle", addr |-> "", peer |-> NoPeer,
                                err |-> "none"]]
    /\ netRet = [op |-> "none", peerID |-> "", err |-> "ok"]

NetInit0 == OverlayInit0 /\ MeshInit0

(***************************************************************************)
(* Specifications                                                          *)
(***************************************************************************)
\* The chunk store: a chunker configured with any requested chunk size.
InitChunk ==
    /\ \E c \in ChunkSizeRequests : ChunkInitWith(NewFileChunker(c))
    /\ RegInit0 /\ SelInit0 /\ DfsInit0 /\ NetInit0

NextChunk ==
    /\ \/ \E F \in Files : ChunkFile(F)
       \/ ChunkFileMissing
       \/ \E chunks \in ChunkLists : ReassembleFile(chunks)
    /\ UNCHANGED <<dfsVars, stopVars, meshVars, regVars, listVars, selVars, netVars>>

SpecChunk == InitChunk /\ [][NextChunk]_vars

\* The chunk store written to by ChunkFile and by StoreChunk.
InitStore ==
    /\ \E c \in ChunkSizeRequests : ChunkInitWith(NewFileChunker(c))
    /\ RegInit0 /\ SelInit0 /\ DfsInit0 /\ NetInit0

NextStore ==
    /\ \/ \E F \in Files : ChunkFile(F)
       \/ \E f \in StoreIDs, c \in StoreIDs, d \in StoreData : StoreChunk(f, c, d)
    /\ UNCHANGED <<dfsVars, stopVars, meshVars, regVars, listVars, selVars, netVars>>

SpecStore == InitStore /\ [][NextStore]_vars

\* The node registry, driven by the control plane and by the overlay's connects.
InitReg == ChunkInit0 /\ RegInit0 /\ SelInit0 /\ DfsInit0 /\ NetInit0

NextReg ==
    /\ \/ \E id \in NodeIds, a \in Addrs \cup MalformedAddrs, m \in CapacityInputs :
             RegisterNode(id, a, m)
       \/ \E id \in NodeIds, st \in StatusInputs : UpdateNodeStatus(id, st)
       \/ \E id \in NodeIds, u \in StorageInputs : UpdateNodeStorage(id, u)
       \/ \E id \in NodeIds : RemoveNode(id)
       \/ \E id \in NodeIds : HeartbeatNode(id)
       \/ \E a \in NetAddrs : RegisterPeerNode(a)
    /\ UNCHANGED <<dfsVars, stopVars, meshVars, chunkVars, listVars, selVars, netVars>>

SpecReg == InitReg /\ [][NextReg]_vars

\* The node registry with the wall clock running: the calls that are
\* addressed to a node by its id, on nodes registered at the overlay's
\* addresses.
InitLive == ChunkInit0 /\ RegInit0 /\ SelInit0 /\ DfsInit0 /\ NetInit0

NextLive ==
    /\ \/ \E id \in NodeIds, a \in NetAddrs, m \in CapacityInputs : RegisterNode(id, a, m)
       \/ \E id \in NodeIds, st \in StatusInputs : UpdateNodeStatus(id, st)
       \/ \E id \in NodeIds, u \in StorageInputs : UpdateNodeStorage(id, u)
       \/ \E id \in NodeIds : RemoveNode(id)
       \/ \E id \in NodeIds : HeartbeatNode(id)
       \/ Tick
    /\ UNCHANGED <<dfsVars, stopVars, meshVars, chunkVars, listVars, selVars, netVars>>

SpecLive == InitLive /\ [][NextLive]_vars

\* The node registry with one ListNodes call among the calls that change it.
ListAmounts  == {MaxStorage}

InitList == ChunkInit0 /\ RegInit0 /\ SelInit0 /\ DfsInit0 /\ NetInit0

NextList ==
    /\ \/ /\ \/ \E id \in NodeIds, a \in {"a1", "a2"}, m \in ListAmounts : RegisterNode(id, a, m)
             \/ \E id \in NodeIds, st \in {"inactive"} : UpdateNodeStatus(id, st)
             \/ \E id \in NodeIds, u \in ListAmounts : UpdateNodeStorage(id, u)
             \/ \E id \in NodeIds : RemoveNode(id)
             \/ \E id \in NodeIds : HeartbeatNode(id)
             \/ Tick
          /\ UNCHANGED listVars
       \/ ~listing.called /\ ListNodes
    /\ UNCHANGED <<dfsVars, stopVars, meshVars, chunkVars, selVars, netVars>>

SpecList == InitList /\ [][NextList]_vars

\* The placement selector, applied to every registry content.
InitSelect ==
    /\ ChunkInit0 /\ SelInit0 /\ DfsInit0 /\ NetInit0 /\ ListInit0
    /\ nodes \in SelRegistries
    /\ nodeAddrs = [a \in {SelAddr(id) : id \in SelIds} |->
                       CHOOSE id \in SelIds : SelAddr(id) = a]
    /\ now = 0
    /\ held = [id \in NodeIds \cup {PeerNodeId} |-> {}]
    /\ lastOp = Returned("none", "ok")

\* one call per registry content
NextSelect ==
    /\ ~selCall.called
    /\ \E fs \in 0..MaxCapacity, rc \in ReplicaCounts : GetOptimalStorageNodes(fs, rc)

SpecSelect == InitSelect /\ [][NextSelect]_vars

\* The overlay: concurrent connects, inbound connections, readers ending,
\* disconnects.
InitNet == ChunkInit0 /\ RegInit0 /\ SelInit0 /\ DfsInit0 /\ NetInit0

NextNet ==
    /\ \/ \E t \in Tasks, a \in NetAddrs : ConnectToPeerCall(t, a)
       \/ \E t \in Tasks : ConnectToPeerCheck(t)
       \/ \E t \in Tasks : ConnectToPeerDial(t)
       \/ \E t \in Tasks : ConnectToPeerDialFails(t)
       \/ \E t \in Tasks : ConnectToPeerAdd(t)
       \/ \E t \in Tasks : ConnectToPeerRegister(t)
       \/ \E t \in Tasks : ConnectToPeerReturn(t)
       \/ \E a \in NetAddrs : acceptConnections(a)
       \/ \E i \in DOMAIN peerObjs : handleConnectionExit(i)
       \/ \E id \in PeerIds : DisconnectPeer(id)
    /\ UNCHANGED <<dfsVars, stopVars, meshVars, chunkVars, listVars, selVars, sendVars>>

SpecNet == InitNet /\ [][NextNet]_vars

\* The overlay's frames: inbound connections, remotes sending and closing,
\* the readers, broadcasts.
InitSend == ChunkInit0 /\ RegInit0 /\ SelInit0 /\ DfsInit0 /\ NetInit0

NextSend ==
    /\ \/ \E a \in NetAddrs : acceptConnections(a) /\ UNCHANGED sendVars
       \/ \E i \in PeerSlots : handleConnectionExit(i) /\ UNCHANGED sendVars
       \/ \E i \in PeerSlots, f \in {"ping", "bad"} : RemoteSends(i, f)    \* "bad" does not decode
       \/ \E i \in PeerSlots : RemoteCloses(i)
       \/ \E i \in PeerSlots : handleConnectionRead(i)
       \/ \E i \in PeerSlots : handlePingSendLen(i)
       \/ \E i \in PeerSlots : handlePingSendData(i)
       \/ \E b \in Broadcasters : BroadcastMessageCall(b)
       \/ \E b \in Broadcasters : BroadcastMessageNext(b)
       \/ \E b \in Broadcasters : BroadcastMessageSendLen(b)
       \/ \E b \in Broadcasters : BroadcastMessageSendData(b)
       \/ \E b \in Broadcasters : BroadcastMessageReturn(b)
    /\ UNCHANGED <<dfsVars, stopVars, meshVars, chunkVars, listVars, selVars>>

SpecSend == InitSend /\ [][NextSend]_vars

\* The readers and their handlers' replies: inbound connections, remotes
\* sending frames of every kind and closing.
InitReply == ChunkInit0 /\ RegInit0 /\ SelInit0 /\ DfsInit0 /\ NetInit0

NextReply ==
    /\ \/ \E a \in NetAddrs : acceptConnections(a) /\ UNCHANGED sendVars
       \/ \E i \in PeerSlots : handleConnectionExit(i) /\ UNCHANGED sendVars
       \/ \E i \in PeerSlots, f \in ReplyFrames : RemoteSends(i, f)
       \/ \E i \in PeerSlots : RemoteCloses(i)
       \/ \E i \in PeerSlots : handleConnectionRead(i)
       \/ \E i \in PeerSlots : handlePingSendLen(i)
       \/ \E i \in PeerSlots : handlePingSendData(i)
    /\ UNCHANGED <<dfsVars, stopVars, meshVars, chunkVars, listVars, selVars>>

SpecReply == InitReply /\ [][NextReply]_vars

\* Keep-alive: inbound connections, remotes sending Ping and Pong, the reader
\* and its replies, next to a registry that takes registrations while the
\* clock moves on.
PingFrames == {"ping", "pong"}

InitPing == ChunkInit0 /\ RegInit0 /\ SelInit0 /\ DfsInit0 /\ NetInit0

NextPing ==
    /\ \/ \E a \in NetAddrs : acceptConnections(a) /\ UNCHANGED sendVars
       \/ \E i \in PeerSlots : handleConnectionExit(i) /\ UNCHANGED sendVars
       \/ \E i \in PeerSlots, f \in PingFrames : RemoteSends(i, f)
       \/ \E i \in PeerSlots : RemoteCloses(i)
       \/ \E i \in PeerSlots : handleConnectionRead(i)
       \/ \E i \in PeerSlots : handlePingSendLen(i)
       \/ \E i \in PeerSlots : handlePingSendData(i)
       \/ \E a \in NetAddrs : RegisterNode("n1", a, 0) /\ UNCHANGED netVars
       \/ Tick /\ UNCHANGED netVars
    /\ UNCHANGED <<dfsVars, stopVars, meshVars, chunkVars, listVars, selVars>>

SpecPing == InitPing /\ [][NextPing]_vars

\* Node announcements: inbound connections, remotes sending announcements,
\* the connects the handler starts.
InitAnnounce == ChunkInit0 /\ RegInit0 /\ SelInit0 /\ DfsInit0 /\ NetInit0

NextAnnounce ==
    /\ \/ \E a \in NetAddrs : acceptConnections(a) /\ UNCHANGED sendVars
       \/ \E i \in PeerSlots : handleConnectionExit(i) /\ UNCHANGED sendVars
       \/ \E i \in PeerSlots, f \in AnnounceFrames : RemoteSends(i, f)
       \/ \E i \in PeerSlots : handleConnectionRead(i)
       \/ \E t \in Tasks : ConnectToPeerCheck(t) /\ UNCHANGED sendVars
       \/ \E t \in Tasks : ConnectToPeerDial(t) /\ UNCHANGED sendVars
       \/ \E t \in Tasks : ConnectToPeerDialFails(t) /\ UNCHANGED sendVars
       \/ \E t \in Tasks : ConnectToPeerAdd(t) /\ UNCHANGED sendVars
       \/ \E t \in Tasks : ConnectToPeerRegister(t) /\ UNCHANGED sendVars
       \/ \E t \in Tasks : ConnectToPeerReturn(t) /\ UNCHANGED sendVars
    /\ UNCHANGED <<dfsVars, stopVars, meshVars, chunkVars, listVars, selVars>>

SpecAnnounce == InitAnnounce /\ [][NextAnnounce]_vars

\* The file operations, called by two goroutines at a time.
InitDfs == ChunkInit0 /\ RegInit0 /\ SelInit0 /\ DfsInit0 /\ NetInit0

NextDfs ==
    /\ \E t \in DfsCallers :
          \/ \E d \in {"", "f"} : ListFilesCall(t, d)            \* rootDir, and a file's path
          \/ ListFilesWrite(t)
          \/ \E p \in DfsPaths : GetFileInfoCall(t, p)
          \/ GetFileInfoWrite(t)
          \/ \E p \in DfsPaths, r \in ReplicaInputs : SetReplicationFactorCall(t, p, r)
          \/ SetReplicationFactorWrite(t)
          \/ \E p \in DfsPaths : UploadFileCall(t, p)
          \/ UploadFileWrite(t)
          \/ \E p \in DfsPaths : DeleteFileCall(t, p)
          \/ DeleteFileWrite(t)
          \/ \E p, q \in DfsPaths : MoveFileCall(t, p, q)
          \/ MoveFileWrite(t)
    /\ UNCHANGED <<stopVars, meshVars, chunkVars, regVars, listVars, selVars, netVars>>

SpecDfs == InitDfs /\ [][NextDfs]_vars

\* Start and Stop: the accept loop, the goroutines of the connections it
\* accepts, readers ending, and one Stop call.
InitStop == ChunkInit0 /\ RegInit0 /\ SelInit0 /\ DfsInit0 /\ NetInit0

NextStop ==
    /\ \/ \E seen \in BOOLEAN : acceptLoopCheck(seen)
       \/ \E a \in NetAddrs : listenerAccept(a)
       \/ listenerAcceptFails
       \/ \E a \in NetAddrs : acceptGoroutine(a)
       \/ StopCloseListener
       \/ StopLocked
       \/ \E i \in PeerSlots : handleConnectionExit(i) /\ UNCHANGED <<sendVars, stopVars>>
    /\ UNCHANGED <<dfsVars, meshVars, chunkVars, listVars, selVars>>

SpecStop == InitStop /\ [][NextStop]_vars

\* Stop is called and goes through; a goroutine that is started runs; a read
\* on a closed socket returns; the accept loop keeps running and a write to
\* isRunning becomes visible to it.
StopFairness ==
    /\ WF_<<netVars, stopVars>>(StopCloseListener)
    /\ WF_<<netVars, stopVars>>(StopLocked)
    /\ WF_<<netVars, stopVars>>(listenerAcceptFails)
    /\ SF_<<netVars, stopVars>>(acceptLoopCheck(FALSE))
    /\ \A a \in NetAddrs : WF_<<netVars, stopVars>>(acceptGoroutine(a))
    /\ \A i \in PeerSlots : WF_<<netVars, stopVars>>(readOnClosedFails(i))

SpecStopLive == SpecStop /\ StopFairness

\* Several nodes started with peer lists that link them all; every node keeps
\* asking its peers for theirs.  No connection breaks and no listener goes away.
InitMesh ==
    /\ ChunkInit0 /\ RegInit0 /\ SelInit0 /\ DfsInit0 /\ OverlayInit0
    /\ \E pl \in PeerLists : MeshInitWith(pl)

NextMesh ==
    /\ \/ \E n \in MeshNodes, a \in MeshAddrs : MeshConnectToPeer(n, a)
       \/ \E n \in MeshNodes, k \in MeshAddrs : MeshSendDiscovery(n, k)
       \/ \E msg \in mNet : MeshHandleNodeDiscovery(msg)
       \/ \E msg \in mNet : MeshHandleNodeAnnouncement(msg)
    /\ UNCHANGED <<dfsVars, stopVars, chunkVars, regVars, listVars, selVars, netVars>>

SpecMesh == InitMesh /\ [][NextMesh]_vars

\* Every goroutine that is started runs, every message is handled, and every
\* node sends a NodeDiscovery again and again.
MeshFairness ==
    /\ \A n \in MeshNodes, a \in MeshAddrs : WF_meshVars(MeshConnectToPeer(n, a))
    /\ \A n \in MeshNodes : SF_meshVars(\E k \in MeshAddrs : MeshSendDiscovery(n, k))
    /\ WF_meshVars(\E msg \in mNet : MeshHandleNodeDiscovery(msg))
    /\ WF_meshVars(\E msg \in mNet : MeshHandleNodeAnnouncement(msg))

SpecMeshLive == SpecMesh /\ MeshFairness

(***************************************************************************)
(* Claims                                                                  *)
(***************************************************************************)

\* C1: ReassembleFile applied to the file id and chunk list ChunkFile returned
\* succeeds and leaves an output file whose bytes are the bytes of the file
\* that was split (SpecChunk).
C1_RoundTrip ==
    (/\ lastReasm.called /\ lastReasm.asReturned
     /\ lastSplit.err = "ok" /\ lastReasm.fileID = lastSplit.fileID)
    => (lastReasm.err = "ok" /\ outFile = FileOf(lastSplit.content))

\* a file of several chunks whose length is no multiple of the chunk size has
\* been split and reassembled
C1_Witness ==
    /\ lastReasm.called /\ lastReasm.asReturned /\ lastReasm.err = "ok"
    /\ lastSplit.err = "ok" /\ lastReasm.fileID = lastSplit.fileID
    /\ Len(lastSplit.chunks) >= 2
    /\ Len(lastSplit.content) % chunkSize # 0
    /\ outFile = FileOf(lastSplit.content)

\* C2: every node of the registry has 0 <= storageUsed <= storageMax (SpecReg).
C2_StorageWithinCapacity ==
    \A id \in DOMAIN nodes :
        0 <= nodes[id].StorageUsed /\ nodes[id].StorageUsed <= nodes[id].StorageMax

\* C3: no two nodes of the registry have the same address (SpecReg).
C3_AddressUnique ==
    \A i, j \in DOMAIN nodes : i # j => nodes[i].Address # nodes[j].Address

\* two nodes are registered, one of them after having moved to another
\* address, and a register call has just been refused with Conflict
C3_Witness ==
    /\ Cardinality(DOMAIN nodes) >= 2
    /\ \E id \in DOMAIN nodes : Cardinality(held[id]) = 2
    /\ lastOp.op = "register" /\ lastOp.err = "Conflict"

\* the nodes of the registry that have one of these addresses
NodesAt(ns, addresses) == {n \in DOMAIN ns : ns[n].Address \in addresses}

\* C4: a successful register(id, addrB, m) of a node that is registered at
\* addrA leaves the registry with the same ids, the node at addrB, the other
\* nodes as they were, and no other node at addrA or addrB (SpecReg).
C4_ReRegisterMovesNode ==
    [][\A id \in NodeIds, b \in Addrs, m \in CapacityInputs :
          (/\ lastOp'.op = "register" /\ lastOp'.err = "ok" /\ id \in DOMAIN nodes
           /\ RegisterNode(id, b, m))
          => /\ DOMAIN nodes' = DOMAIN nodes
             /\ nodes'[id].ID = id
             /\ nodes'[id].Address = b
             /\ \A n \in DOMAIN nodes \ {id} : nodes'[n] = nodes[n]
             /\ NodesAt(nodes', {nodes[id].Address, b}) = {id}]_vars

\* a node that has held two addresses has just been registered again
C4_Witness ==
    /\ lastOp.op = "register" /\ lastOp.err = "ok"
    /\ \E id \in NodeIds \cap DOMAIN nodes : Cardinality(held[id]) >= 2
    /\ Cardinality(DOMAIN nodes) >= 2

\* C5: register(id2, addr, m) returns Conflict when a node with another id is
\* registered at addr, and leaves the nodes and the address index as they
\* were (SpecReg).
C5_ConflictLeavesRegistry ==
    [][\A id \in NodeIds \cup {PeerNodeId}, a \in Addrs, m \in CapacityInputs :
          (/\ lastOp'.op = "register" /\ NodesAt(nodes, {a}) \ {id} # {}
           /\ RegisterNode(id, a, m))
          => /\ lastOp'.err = "Conflict"
             /\ nodes' = nodes
             /\ nodeAddrs' = nodeAddrs]_vars

\* a register call has just been refused with Conflict while two nodes are
\* registered
C5_Witness ==
    /\ lastOp.op = "register" /\ lastOp.err = "Conflict"
    /\ Cardinality(DOMAIN nodes) >= 2

\* C6: right after remove(id) has removed a node, register of another id at an
\* address the removed node had held, and that no node of the registry has or
\* has held, succeeds (SpecReg).
C6_RemoveFreesAddresses ==
    [][\A id \in NodeIds, a \in Addrs, m \in CapacityInputs :
          (/\ lastOp.op = "remove" /\ lastOp.err = "ok"
           /\ lastOp.removed # <<id>>
           /\ a \in lastOp.freed
           /\ \A n \in DOMAIN nodes : a \notin held[n]
           /\ RegisterNode(id, a, m))
          => lastOp'.err = "ok"]_vars

\* C7: setStorageUsed(id, used) on a registered node returns InvalidInput and
\* leaves the registry as it was when used < 0 or used > storageMax; otherwise
\* it succeeds and get(id) then reports storageUsed = used (SpecReg).
C7_SetStorageUsed ==
    [][\A id \in NodeIds, used \in StorageInputs :
          (/\ lastOp'.op = "setStorageUsed" /\ id \in DOMAIN nodes
           /\ UpdateNodeStorage(id, used))
          => IF used < 0 \/ used > nodes[id].StorageMax
             THEN lastOp'.err = "InvalidInput" /\ nodes' = nodes
             ELSE /\ lastOp'.err = "ok"
                  /\ GetNode(id)'.err = "ok"
                  /\ GetNode(id)'.node.StorageUsed = used]_vars

\* a node with usage recorded has just had a setStorageUsed call refused
C7_Witness ==
    /\ lastOp.op = "setStorageUsed" /\ lastOp.err = "InvalidInput"
    /\ \E id \in NodeIds \cap DOMAIN nodes : nodes[id].StorageUsed > 0

\* the ids of the nodes the selector must consider: active, with at least
\* fileSize bytes free
EligibleIds(fileSize) ==
    {id \in DOMAIN nodes :
        nodes[id].Status = "active"
        /\ nodes[id].StorageMax - nodes[id].StorageUsed >= fileSize}

FreeOf(id) == nodes[id].StorageMax - nodes[id].StorageUsed

\* C8: what select(size, replicas) returns has no id twice, holds only ids of
\* active nodes with at least size bytes free, is in order of non-increasing
\* free space, leaves out no eligible node with more free space than one it
\* returns, and has min(replicas, eligibleCount) entries (SpecSelect).
C8_SelectRanksEligible ==
    (selCall.called /\ ~selCall.panic)
    => LET res == selCall.result
           n   == Len(res)
       IN  /\ \A i, j \in 1..n : i # j => res[i] # res[j]
           /\ \A i \in 1..n : res[i] \in EligibleIds(selCall.fileSize)
           /\ \A i, j \in 1..n : i < j => FreeOf(res[i]) >= FreeOf(res[j])
           /\ \A e \in EligibleIds(selCall.fileSize) :
                 (\A i \in 1..n : res[i] # e)
                 => \A i \in 1..n : FreeOf(e) <= FreeOf(res[i])
           /\ n = Min(selCall.replicaCount,
                      Cardinality(EligibleIds(selCall.fileSize)))

\* of three eligible nodes the two with the most free space have been
\* returned, the one with more of the two first
C8_Witness ==
    /\ selCall.called /\ ~selCall.panic
    /\ Len(selCall.result) = 2
    /\ Cardinality(EligibleIds(selCall.fileSize)) = 3
    /\ FreeOf(selCall.result[1]) > FreeOf(selCall.result[2])
    /\ selCall.fileSize > 0

\* C9: for every replica count select returns min(replicas, eligibleCount)
\* ids, and none when that is below 0; it never aborts (SpecSelect).
C9_SelectNeverAborts ==
    selCall.called
    => /\ ~selCall.panic
       /\ Len(selCall.result) =
             LET k == Min(selCall.replicaCount,
                          Cardinality(EligibleIds(selCall.fileSize)))
             IN  IF k < 0 THEN 0 ELSE k

\* C10: a ConnectToPeer(addr) call that makes its check while the peer map
\* holds an active peer for addr returns that peer, creates no Peer (opens no
\* socket) and leaves the peer map as it was (SpecNet).
C10_ConnectIsIdempotent ==
    [][\A t \in Tasks :
          (/\ conn[t].pc = "check" /\ conn'[t] # conn[t]
           /\ conn[t].addr \in DOMAIN peers
           /\ peerObjs[peers[conn[t].addr]].IsActive)
          => /\ conn'[t].pc = "done" /\ conn'[t].err = "ok"
             /\ conn'[t].peer = peers[conn[t].addr]
             /\ peerObjs' = peerObjs
             /\ peers' = peers]_vars

\* two concurrent calls for the same address have both returned the one
\* active peer of the map, and no other Peer exists
C10_Witness ==
    /\ \A t \in Tasks : conn[t].pc = "done" /\ conn[t].err = "ok"
    /\ \E a \in DOMAIN peers :
          /\ \A t \in Tasks : conn[t].addr = a /\ conn[t].peer = peers[a]
          /\ peerObjs[peers[a]].IsActive
    /\ Len(peerObjs) = 1

\* C11: the byte stream on a peer's socket is a concatenation of whole
\* frames: every length prefix written is immediately followed by the payload
\* of the same Send call, also when several tasks send to the peer at once
\* (SpecSend).
C11_FramesNeverInterleave ==
    \A i \in PeerSlots : \A k \in 1..Len(wire[i]) :
        /\ wire[i][k].part = "data" =>
              /\ k > 1
              /\ wire[i][k - 1] = [part |-> "len", by |-> wire[i][k].by]
        /\ (wire[i][k].part = "len" /\ k < Len(wire[i])) =>
              wire[i][k + 1] = [part |-> "data", by |-> wire[i][k].by]

\* C12: a Peer whose IsActive has become false stays inactive in every later
\* state, and the Peer a ConnectToPeer call hands to its caller is either a
\* Peer created by that call or one that is active: an inactive Peer is never
\* reactivated (SpecNet).
C12_InactiveIsTerminal ==
    [][/\ \A i \in DOMAIN peerObjs :
             ~peerObjs[i].IsActive => (i \in DOMAIN peerObjs' /\ ~peerObjs'[i].IsActive)
       /\ \A t \in Tasks :
             (conn'[t].peer # conn[t].peer /\ conn'[t].peer # NoPeer) =>
                \/ conn'[t].peer \notin DOMAIN peerObjs
                \/ peerObjs[conn'[t].peer].IsActive]_vars

\* C12 witness: a connect to an address whose earlier Peer is inactive has
\* created a second Peer, which is active while the first one still is not.
C12_Witness ==
    \E t \in Tasks : \E i, j \in DOMAIN peerObjs :
        /\ i < j
        /\ peerObjs[i].Address = peerObjs[j].Address
        /\ ~peerObjs[i].IsActive
        /\ peerObjs[j].IsActive
        /\ conn[t].pc = "done" /\ conn[t].err = "ok" /\ conn[t].peer = j

\* C13: when the reader of a peer takes a frame whose envelope does not
\* decode, the peer's socket stays open, the peer stays active and the reader
\* stays in its loop; and every frame that decodes, also one that follows an
\* undecodable frame, is dispatched to its handler (SpecSend).
C13_BadFrameKeepsConnection ==
    [][\A i \in PeerSlots :
          (i \in DOMAIN peerObjs /\ rd'[i].got # rd[i].got) =>
             LET frame == rd'[i].got[Len(rd'[i].got)] IN
             IF DecodeOK(frame)
             THEN rd'[i].dispatched = Append(rd[i].dispatched, frame)
             ELSE /\ peerObjs'[i] = peerObjs[i]
                  /\ peerObjs'[i].ConnOpen /\ peerObjs'[i].IsActive
                  /\ peerObjs'[i].reader = "running"
                  /\ rd'[i].pc = "read"
                  /\ rd'[i].dispatched = rd[i].dispatched]_vars

\* C13 witness: a reader has taken an undecodable frame and then a Ping, and
\* has dispatched the Ping.
C13_Witness ==
    \E i \in DOMAIN peerObjs :
        /\ rd[i].got = <<"bad", "ping">>
        /\ rd[i].dispatched = <<"ping">>
        /\ peerObjs[i].IsActive /\ peerObjs[i].ConnOpen

\* C14: DisconnectPeer called with an id that no peer of the map has returns
\* NotFound and leaves the map and every Peer (socket, active flag) as they
\* were (SpecNet).
C14_DisconnectUnknown ==
    [][\A id \in PeerIds :
          ((~\E i \in MapPeers : peerObjs[i].ID = id) /\ DisconnectPeer(id)) =>
             /\ netRet'.err = "NotFound"
             /\ peers' = peers
             /\ peerObjs' = peerObjs]_vars

\* C14 witness: a disconnect with an unknown id has returned NotFound while
\* the map holds an active peer whose socket is open.
C14_Witness ==
    /\ netRet.op = "disconnect" /\ netRet.peerID = "p1" /\ netRet.err = "NotFound"
    /\ \E i \in MapPeers : peerObjs[i].IsActive /\ peerObjs[i].ConnOpen

\* C15: DisconnectPeer called with an id that a peer of the map has succeeds,
\* closes the socket of one peer that has this id and deletes that peer from
\* the map; every other peer, also one with the same id, keeps its map entry
\* and its socket as they were (SpecNet).
C15_DisconnectRemovesOne ==
    [][\A id \in PeerIds :
          ((\E i \in MapPeers : peerObjs[i].ID = id) /\ DisconnectPeer(id)) =>
             /\ netRet'.err = "ok"
             /\ \E i \in MapPeers :
                   /\ peerObjs[i].ID = id
                   /\ ~peerObjs'[i].ConnOpen
                   /\ MapPeers' = MapPeers \ {i}
                   /\ peers' = MapDel(peers, peerObjs[i].Address)
                   /\ \A j \in DOMAIN peerObjs \ {i} : peerObjs'[j] = peerObjs[j]
                   /\ DOMAIN peerObjs' = DOMAIN peerObjs]_vars

\* C15 witness: of two peers with the same (empty) id, a disconnect has
\* removed one, whose socket is closed; the other is in the map, socket open.
C15_Witness ==
    /\ netRet.op = "disconnect" /\ netRet.err = "ok"
    /\ \E i, j \in DOMAIN peerObjs :
          /\ i # j
          /\ peerObjs[i].ID = netRet.peerID /\ peerObjs[j].ID = netRet.peerID
          /\ i \notin MapPeers /\ ~peerObjs[i].ConnOpen /\ peerObjs[i].reader = "running"
          /\ j \in MapPeers /\ peerObjs[j].ConnOpen

\* the writes of broadcast number n of caller b on the socket of peer i
BroadcastWrites(b, n, i) ==
    {wire[i][k].part : k \in {x \in 1..Len(wire[i]) : wire[i][x].by = <<"bcast", b, n>>}}

\* C16: when a BroadcastMessage call has gone through the map, it has called
\* Send for exactly the peers of the map that were active when it was called,
\* whether or not an earlier Send failed; every such peer whose Send did not
\* fail has been written the whole frame, and a peer that was not active has
\* been written nothing (SpecSend).
C16_BroadcastReachesActive ==
    \A b \in Broadcasters :
        (bcast[b].calls > 0 /\ bcast[b].todo = {} /\ bcast[b].pc \in {"loop", "idle"}) =>
           /\ {bcast[b].attempted[k] : k \in 1..Len(bcast[b].attempted)}
                 = bcast[b].activeAtCall
           /\ \A i \in bcast[b].activeAtCall \ bcast[b].failed :
                 BroadcastWrites(b, bcast[b].calls, i) = {"len", "data"}
           /\ \A i \in PeerSlots \ bcast[b].activeAtCall :
                 BroadcastWrites(b, bcast[b].calls, i) = {}

\* C16 witness: a broadcast has returned whose first Send failed and whose
\* second Send, to another active peer, wrote the whole frame.
C16_Witness ==
    \E b \in Broadcasters :
        /\ bcast[b].pc = "idle" /\ bcast[b].calls > 0
        /\ Len(bcast[b].attempted) = 2
        /\ bcast[b].attempted[1] \in bcast[b].failed
        /\ bcast[b].attempted[2] \notin bcast[b].failed
        /\ BroadcastWrites(b, bcast[b].calls, bcast[b].attempted[2]) = {"len", "data"}

\* the indices are a permutation of 0..N-1, N being their number
DenseIndices(ix) == {ix[k] : k \in 1..Len(ix)} = 0..(Len(ix) - 1)

\* C17: a ReassembleFile call whose chunks' indices are not a permutation of
\* 0..N-1 (an index outside [0, N), or a repeated index that leaves a
\* position empty) returns InvalidInput; it does not crash (SpecChunk).
C17_NonDenseIsInvalidInput ==
    (lastReasm.called /\ ~DenseIndices(lastReasm.indices)) =>
        lastReasm.err = "InvalidInput"

C19_RegisterUpserts ==
    [][\A id \in NodeIds, a \in Addrs, m \in CapacityInputs :
          (/\ lastOp'.op = "register" /\ lastOp'.err = "ok"
           /\ RegisterNode(id, a, m))
          => /\ id \in DOMAIN nodes'
             /\ nodes'[id].Address = a
             /\ nodes'[id].StorageMax = m
             /\ nodes'[id].Status = "active"
             /\ nodes'[id].StorageUsed =
                   IF id \in DOMAIN nodes THEN nodes[id].StorageUsed ELSE 0]_vars

\* C19 witness: the only node of the registry, which has usage recorded, has
\* just been registered again.
C19_Witness ==
    /\ lastOp.op = "register" /\ lastOp.err = "ok"
    /\ \E id \in NodeIds :
          /\ DOMAIN nodes = {id}
          /\ nodes[id].StorageUsed > 0
          /\ nodes[id].Status = "active"

\* C20: GetNode, HeartbeatNode, UpdateNodeStatus, UpdateNodeStorage and
\* RemoveNode called with an id that is not in the registry return NotFound
\* and leave the nodes and the address index as they were; HeartbeatNode on
\* an id of the registry succeeds and changes nothing but that node's
\* LastSeen, which becomes the time of the call (SpecLive).
C20_UnknownIdIsNotFound ==
    [][\A id \in NodeIds :
          /\ (/\ id \notin DOMAIN nodes
              /\ \/ HeartbeatNode(id)
                 \/ RemoveNode(id)
                 \/ \E st \in StatusInputs : UpdateNodeStatus(id, st)
                 \/ \E u \in StorageInputs : UpdateNodeStorage(id, u))
             => /\ lastOp'.err = "NotFound"
                /\ GetNode(id).err = "NotFound"
                /\ nodes' = nodes
                /\ nodeAddrs' = nodeAddrs
          /\ (/\ lastOp'.op = "heartbeat"
              /\ id \in DOMAIN nodes
              /\ HeartbeatNode(id))
             => /\ lastOp'.err = "ok"
                /\ nodes' = [nodes EXCEPT ![id].LastSeen = now]
                /\ nodeAddrs' = nodeAddrs]_vars

\* C20 witness: a heartbeat for an id that is not registered has returned
\* NotFound, while the registry holds a node (with usage recorded, not
\* active) that has been seen since the clock moved on.
C20_Witness ==
    /\ lastOp.op = "heartbeat" /\ lastOp.err = "NotFound"
    /\ \E id \in NodeIds :
          /\ DOMAIN nodes = {id}
          /\ nodes[id].LastSeen > 0
          /\ nodes[id].StorageUsed > 0
          /\ nodes[id].Status = "inactive"

\* C21: the Node values of a list ListNodes has returned stay what they were
\* when it returned, whatever RegisterNode, UpdateNodeStatus,
\* UpdateNodeStorage, HeartbeatNode and RemoveNode calls follow (SpecList).
C21_ListIsSnapshot ==
    listing.called =>
        \A k \in DOMAIN listing.list : ListedNode(listing.list[k]) = listing.atCall[k]

\* C21 witness: of the two nodes of a returned list, one has been removed from
\* the registry since and the other has changed.
C21_Witness ==
    /\ listing.called
    /\ Len(listing.list) = 2
    /\ \E j, k \in DOMAIN listing.list :
          /\ listing.list[j].ptr \notin DOMAIN nodes
          /\ listing.list[k].ptr \in DOMAIN nodes
          /\ nodes[listing.list[k].ptr] # ListedNode(listing.list[k])

\* C22: a peer whose connection has failed is evicted: every Peer the peer
\* map holds is active (SpecNet).
C22_NoInactivePeerInMap ==
    \A i \in MapPeers : peerObjs[i].IsActive

\* C23: when the reader of a peer ends on a failed read (of the length
\* prefix or of the payload), the peer's socket is closed and its IsActive
\* cleared; and once the reader has ended, it stays ended, the peer stays
\* inactive and no further frame of the peer is read or dispatched
\* (SpecSend).
C23_ReadFailureEndsPeer ==
    [][\A i \in PeerSlots :
          /\ handleConnectionExit(i) =>
                /\ peerObjs'[i].reader = "done"
                /\ ~peerObjs'[i].ConnOpen
                /\ ~peerObjs'[i].IsActive
          /\ (i \in DOMAIN peerObjs /\ peerObjs[i].reader = "done") =>
                /\ peerObjs'[i] = peerObjs[i]
                /\ ~peerObjs[i].IsActive /\ ~peerObjs[i].ConnOpen
                /\ rd'[i] = rd[i]]_vars

\* C23 witness: a reader that had dispatched a frame has ended while another
\* frame of its peer was still unread; the peer is inactive.
C23_Witness ==
    \E i \in DOMAIN peerObjs :
        /\ peerObjs[i].reader = "done" /\ ~peerObjs[i].IsActive
        /\ rd[i].dispatched # <<>>
        /\ inbox[i] # <<>>

\* C24: when a ConnectToPeer call that dialled an address registers the
\* peer, the registry then holds a node with that address and storageMax 0,
\* and every address that had a node before the call still has one: a connect
\* does not overwrite or drop the entry an earlier connect created (SpecNet).
C24_ConnectKeepsNodeEntries ==
    [][\A t \in Tasks :
          ConnectToPeerRegister(t) =>
             /\ \E id \in DOMAIN nodes' :
                   nodes'[id].Address = conn[t].addr /\ nodes'[id].StorageMax = 0
             /\ \A a \in NetAddrs :
                   NodesAt(nodes, {a}) # {} => NodesAt(nodes', {a}) # {}]_vars

\* C25: no write goes out on a peer's socket while a task holds the lock of
\* the peer map: BroadcastMessage does not hold the lock while it sends
\* (SpecSend).
C25_NoSendUnderLock ==
    [][\A b \in Broadcasters :
          HoldsReadLock(b) => \A i \in PeerSlots :
             ~\E k \in DOMAIN wire'[i] \ DOMAIN wire[i] :
                 wire'[i][k].by = <<"bcast", b, bcast[b].calls>>]_vars

\* the writes of the given part on the socket of peer i made by its reader's
\* reply of the given type to the n-th frame it read
ReplyWrites(i, type, n, part) ==
    {k \in DOMAIN wire[i] : wire[i][k] = [part |-> part, by |-> <<type, i, n>>]}

\* C26: when the reader of peer R dispatches a NodeDiscovery, the reply it
\* sends to R is a NodeAnnouncement that lists the addresses of the peers of
\* the map that are active at that moment, R's own address left out; for each
\* NodeDiscovery at most one NodeAnnouncement frame is written to R, exactly
\* one once the handler is through on a working socket, and none is written
\* for any other frame (SpecReply).
C26_DiscoveryIsAnswered ==
    [][\A i \in PeerSlots :
          /\ (i \in DOMAIN peerObjs /\ rd'[i].got = Append(rd[i].got, "discovery")) =>
                rd'[i].reply =
                   <<[type |-> "announcement",
                      payload |-> {peerObjs[j].Address :
                                     j \in {x \in MapPeers : peerObjs[x].IsActive}}
                                  \ {peerObjs[i].Address}]>>
          /\ \A n \in 1..MaxFrames :
                LET lens  == Cardinality(ReplyWrites(i, "announcement", n, "len")')
                    datas == Cardinality(ReplyWrites(i, "announcement", n, "data")')
                    asked == n \in DOMAIN rd'[i].got /\ rd'[i].got[n] = "discovery"
                IN  /\ lens <= 1 /\ datas <= lens
                    /\ ~asked => lens = 0
                    /\ (asked /\ Writable(i)' /\ (n < Len(rd'[i].got) \/ rd'[i].pc = "read"))
                          => datas = 1]_vars

\* C26 witness: a NodeDiscovery from a peer has been answered on its socket
\* with an announcement that lists the address of another peer.
C26_Witness ==
    \E i \in DOMAIN peerObjs :
        /\ rd[i].got # <<>> /\ rd[i].got[Len(rd[i].got)] = "discovery"
        /\ rd[i].pc = "read"
        /\ rd[i].reply # <<>> /\ rd[i].reply[1].payload # {}
        /\ ReplyWrites(i, "announcement", Len(rd[i].got), "data") # {}

\* the addresses at which this node's own listener is reached
OwnListenerAddrs == {"localhost:9000", "10.0.0.5:9000"}

\* how many times the address occurs in the list
Occurrences(list, a) == Cardinality({k \in DOMAIN list : list[k] = a})

\* C27: when the reader of a peer dispatches a NodeAnnouncement, one
\* ConnectToPeer task is started for every listed address that is not an
\* address of this node and none for the others; the handler has returned by
\* then (the reader is back at its read, no dial was waited for) and the peer
\* is as it was.  A dial that fails changes nothing but its own task: not the
\* other tasks, not the peers, not the readers (SpecAnnounce).
C27_AnnouncementStartsConnects ==
    [][/\ \A i \in PeerSlots, f \in AnnounceFrames :
             (i \in DOMAIN peerObjs /\ rd'[i].got = Append(rd[i].got, f)) =>
                LET started == {t \in Tasks : conn[t].pc = "idle" /\ conn'[t].pc = "check"}
                IN  /\ \A a \in {AnnouncedAddrs[f][k] : k \in DOMAIN AnnouncedAddrs[f]} :
                          Cardinality({t \in started : conn'[t].addr = a}) =
                             IF a \in OwnListenerAddrs THEN 0
                             ELSE Occurrences(AnnouncedAddrs[f], a)
                    /\ \A t \in started :
                          \E k \in DOMAIN AnnouncedAddrs[f] : AnnouncedAddrs[f][k] = conn'[t].addr
                    /\ \A t \in Tasks \ started : conn'[t] = conn[t]
                    /\ rd'[i].pc = "read"
                    /\ peerObjs' = peerObjs /\ peers' = peers
       /\ \A t \in Tasks :
             ConnectToPeerDialFails(t) =>
                /\ \A u \in Tasks \ {t} : conn'[u] = conn[u]
                /\ peerObjs' = peerObjs /\ peers' = peers /\ rd' = rd]_vars

\* C27 witness: of the two connects an announcement started, one has failed
\* and the other has succeeded, and the peer the announcement came from is
\* still active with its reader running.
C27_Witness ==
    \E i \in DOMAIN peerObjs :
        /\ rd[i].got = <<"annRemotes">>
        /\ peerObjs[i].IsActive /\ peerObjs[i].reader = "running"
        /\ \E t, u \in Tasks :
              /\ conn[t].pc = "done" /\ conn[t].err = "IOFailure"
              /\ conn[u].pc = "done" /\ conn[u].err = "ok" /\ conn[u].peer # i

ReservedTypes == {"filerequest", "fileinfo", "filechunk", "error"}

\* C30: when the reader of a peer takes a frame whose type has no handler,
\* or a NodeAnnouncement whose handler returns an error, nothing changes but
\* the reader's own record of the frame: the peers (socket open, IsActive,
\* reader running) and the map are as before, nothing is written or started,
\* the registry is untouched, and the reader is back at its read; a frame of
\* a reserved type is not dispatched.  A Send of a reply that fails leaves the
\* peers alone as well and returns the reader to its read.  A reader in that
\* position takes the next frame that is waiting (SpecReply).
C30_UnhandledIsOnlyLogged ==
    [][\A i \in PeerSlots :
          /\ \A f \in ReservedTypes \cup {"badannouncement"} :
                (i \in DOMAIN peerObjs /\ rd'[i].got = Append(rd[i].got, f)) =>
                   /\ peerObjs' = peerObjs /\ peers' = peers
                   /\ wire' = wire /\ conn' = conn
                   /\ nodes' = nodes /\ nodeAddrs' = nodeAddrs
                   /\ rd'[i].pc = "read"
                   /\ f \in ReservedTypes => rd'[i].dispatched = rd[i].dispatched
          /\ (i \in DOMAIN peerObjs /\ rd[i].pc \in {"sendLen", "sendData"} /\ ~Writable(i)
                 /\ rd'[i] # rd[i]) =>
                   peerObjs' = peerObjs /\ peers' = peers /\ rd'[i].pc = "read"
          /\ (/\ i \in DOMAIN peerObjs
              /\ rd[i].got # <<>>
              /\ rd[i].got[Len(rd[i].got)] \in ReservedTypes \cup {"badannouncement"}
              /\ peerObjs[i].reader = "running"
              /\ inbox[i] # <<>>) => ENABLED handleConnectionRead(i)]_vars

\* C30 witness: a peer sent a frame of a reserved type, or an announcement
\* that does not parse, and then a Ping; the Ping was dispatched and answered,
\* and the peer is still active on an open socket.
C30_Witness ==
    \E i \in DOMAIN peerObjs :
        /\ Len(rd[i].got) = 2
        /\ rd[i].got[1] \in ReservedTypes \cup {"badannouncement"}
        /\ rd[i].got[2] = "ping"
        /\ rd[i].dispatched[Len(rd[i].dispatched)] = "ping"
        /\ ReplyWrites(i, "pong", 2, "data") # {}
        /\ peerObjs[i].IsActive /\ peerObjs[i].ConnOpen /\ peerObjs[i].reader = "running"

\* node n has an active peer whose other end is node m
HasPeerFor(n, m) ==
    \E k \in DOMAIN mPeers[n] : mPeers[n][k].IsActive /\ HostOf(k) = m

FullMesh == \A n \in MeshNodes : \A m \in MeshNodes \ {n} : HasPeerFor(n, m)

\* C28: nodes whose peer lists link them all, that keep exchanging
\* NodeDiscovery and NodeAnnouncement while no connection breaks, eventually
\* each have an active peer for every other node (SpecMeshLive).
C28_MeshConverges == <>FullMesh

\* C31: every chunk file of the store, at <fileID>/<chunkID>, has a chunk id
\* that is the hash of the bytes it holds, after any sequence of ChunkFile and
\* StoreChunk calls (SpecStore).
C31_StoreIsContentAddressed ==
    \A path \in DOMAIN disk : path[2] = Sha256Hex(disk[path])

\* the sum of the sizes of the chunks of a list
RECURSIVE SizeSum(_)
SizeSum(chunks) ==
    IF chunks = <<>> THEN 0
    ELSE SizeSum(SubSeq(chunks, 1, Len(chunks) - 1)) + chunks[Len(chunks)].Size

\* C32: the list a successful ChunkFile returns has the indices 0..N-1 in
\* list order; every chunk but the last has the size the chunker is configured
\* with, the last has a size of 1 up to that, the sizes add up to the length
\* of the file, and the list of an empty file is empty (SpecChunk).
C32_SplitSizesAndIndices ==
    (lastSplit.count > 0 /\ lastSplit.err = "ok") =>
        LET chunks == lastSplit.chunks
            N      == Len(chunks)
        IN  /\ \A k \in 1..N : chunks[k].Index = k - 1
            /\ \A k \in 1..(N - 1) : chunks[k].Size = chunkSize
            /\ N > 0 => chunks[N].Size \in 1..chunkSize
            /\ SizeSum(chunks) = Len(lastSplit.content)
            /\ lastSplit.content = <<>> => N = 0

\* C32 witness: a file whose length is no multiple of the chunk size has been
\* split into two chunks, the second one shorter than the first.
C32_Witness ==
    /\ lastSplit.count > 0 /\ lastSplit.err = "ok"
    /\ Len(lastSplit.chunks) = 2
    /\ lastSplit.chunks[2].Size < lastSplit.chunks[1].Size

\* C33: the address index of the registry holds exactly the pairs
\* address -> id of the nodes that are in the registry: every entry names a
\* node that has this address, and every node's address has an entry (SpecReg).
C33_AddressIndexIsExact ==
    /\ \A a \in DOMAIN nodeAddrs :
          nodeAddrs[a] \in DOMAIN nodes /\ nodes[nodeAddrs[a]].Address = a
    /\ \A id \in DOMAIN nodes :
          nodes[id].Address \in DOMAIN nodeAddrs /\ nodeAddrs[nodes[id].Address] = id

\* the peer has an open socket and a reader that runs
LivePeer(i) == peerObjs[i].ConnOpen /\ peerObjs[i].reader = "running"

\* C34: two ConnectToPeer calls for the same address never hold two different
\* peers that both have an open socket and a running reader (SpecNet).
C34_RacingConnectsShareAPeer ==
    \A t, u \in Tasks :
        (/\ t # u
         /\ conn[t].peer # NoPeer /\ conn[u].peer # NoPeer
         /\ conn[t].addr = conn[u].addr
         /\ conn[t].peer # conn[u].peer)
        => ~(LivePeer(conn[t].peer) /\ LivePeer(conn[u].peer))

\* C35: a ReassembleFile call that fails leaves the file at the output path
\* as it was before the call (SpecChunk).
C35_FailedReassembleKeepsOutput ==
    [][\A chunks \in ChunkLists :
          (ReassembleFile(chunks) /\ lastReasm'.err # "ok") => outFile' = outFile]_vars

\* once Stop has returned the accept loop ends
StopEndsAcceptLoop == (stopCall.pc = "done") ~> (acceptLoop = "done")

\* once Stop has returned no new peer is made
StopEndsInbound == [][stopCall.pc = "done" => Len(peerObjs') = Len(peerObjs)]_vars

\* every peer the map held when Stop closed the sockets becomes inactive
StopEndsPeers ==
    \A i \in PeerSlots :
        (stopCall.pc = "done" /\ i \in stopCall.atStop)
            ~> (i \in DOMAIN peerObjs /\ ~peerObjs[i].IsActive)

\* C36: after Stop the accept loop ends, no further inbound connection becomes
\* a peer, and every peer of the map at the time of Stop becomes inactive
\* (SpecStopLive).
C36_StopShutsDown == StopEndsAcceptLoop /\ StopEndsInbound /\ StopEndsPeers

\* C37: a caller that is about to write the file-info cache holds the write
\* lock, and no other caller holds the lock or is about to write with it
\* (SpecDfs).
C37_CacheWritesAreExclusive ==
    \A t \in DfsCallers :
        dfsOp[t].pc = "write" =>
            /\ dfsOp[t].lock = "W"
            /\ \A u \in DfsCallers \ {t} : dfsOp[u].lock = "none"

\* C38: a GetFileInfo that succeeds on a path whose replication factor was
\* set reports that factor, whatever ListFiles and GetFileInfo calls came in
\* between, as long as the file was not deleted, moved or uploaded again; and
\* SetReplicationFactor with a factor below 1 fails and changes neither the
\* files nor the cache (SpecDfs).
C38_ReplicationFactorIsKept ==
    [][\A t \in DfsCallers, p \in DfsPaths :
          /\ (GetFileInfoCall(t, p) /\ p \in DOMAIN dfsSet /\ dfsRet'.info # <<>>)
                => dfsRet'.info[1].Replicas = dfsSet[p]
          /\ (GetFileInfoWrite(t) /\ dfsOp[t].path = p /\ p \in DOMAIN dfsSet)
                => dfsRet'.info[1].Replicas = dfsSet[p]
          /\ \A r \in ReplicaInputs :
                (SetReplicationFactorCall(t, p, r) /\ r < 1)
                    => /\ dfsRet'.err = "InvalidInput"
                       /\ UNCHANGED <<dfsFiles, fileInfo, dfsSet>>]_vars
====
